---- MODULE Spec2Model ----
(***************************************************************************)
(* Verification model of the crawl orchestration code of ecomcrawler.      *)
(*                                                                         *)
(* The repository holds several generations of the same service.  Each is  *)
(* modelled as its own specification over a shared set of variables; the   *)
(* variables of the other generations stay at their initial values.        *)
(*                                                                         *)
(*   SpecRegistry      services/crawler.service with the activeCrawlers    *)
(*                     map and the heartbeat watchdog: one crawlDomain     *)
(*                     call, stopCrawler, stopAllCrawlers, the clock       *)
(*   SpecRegistryLive  SpecRegistry with the fairness the runtime gives    *)
(*   SpecConcurrent    the same service with concurrent crawlDomain calls  *)
(*   SpecBase          crawlers/base.crawler.js (BaseCrawler) and the      *)
(*                     service over the `crawlers` object that drives it   *)
(*   SpecSocket        index.js and crawler.js: socket connections that    *)
(*                     share global.crawlCancelled                         *)
(*   SpecStopAll       SpecBase with stopAllCrawlers as the only stop      *)
(*   SpecErrors        SpecRegistry with a browser that can die and pages  *)
(*                     that link to several pages of their site            *)
(*   SpecUrl           the normalizeUrl functions called on their own      *)
(*   SpecQueue         BaseCrawler without stops and failures on a site    *)
(*                     with more links, with a scaled queue limit          *)
(*   SpecWide          SpecRegistry on a site with a page of four links    *)
(*   SpecThrow         SpecBase with both spellings of the domain and an   *)
(*                     output directory that can fail                      *)
(*   SpecRedirect      SpecBase with redirected navigations                *)
(*   SpecMulti         the service over BaseCrawler with two               *)
(*                     crawlMultipleDomains calls and stopAllCrawlers      *)
(*                                                                         *)
(* JavaScript runs one callback at a time: an action of the model is the   *)
(* code that runs between two awaits (or timer callbacks), so the only     *)
(* interleaving points are the awaits of the source.                       *)
(***************************************************************************)
EXTENDS Integers, Sequences, FiniteSets, TLC

(***************************************************************************)
(* Bounds of the model.                                                    *)
(***************************************************************************)
NumSessions == 2        \* crawlDomain invocations
MaxStops == 2           \* stopCrawler invocations that find a crawler
MaxTicks == 2           \* steps of the clock
MaxBaseStops == 1       \* stop requests to the service built on BaseCrawler
MaxCrawlers == 2        \* crawlers made by crawlMultipleDomains calls

(***************************************************************************)
(* Program constants (seconds).                                            *)
(***************************************************************************)
HEARTBEAT_INTERVAL == 5
MAX_MISSED_HEARTBEATS == 3
DefaultMaxPages == 500

\* The clock counts seconds and moves in steps of two heartbeat intervals; the
\* process starts later than three intervals after the epoch, as Date.now() does.
TickStep == 2 * HEARTBEAT_INTERVAL
StartClock == (MAX_MISSED_HEARTBEATS + 1) * HEARTBEAT_INTERVAL
MaxTime == StartClock + MaxTicks * TickStep

(***************************************************************************)
(* URLs.  A URL is the record a WHATWG parse yields: host labels, path     *)
(* segments (an empty segment stands for a doubled slash), trailing slash, *)
(* query (the key/value pairs of searchParams) and fragment.  A string     *)
(* that new URL() rejects is a record with the field raw only.             *)
(***************************************************************************)
Url(h, p, s, q, f) == [host |-> h, path |-> p, slash |-> s, query |-> q, hash |-> f]

HostA == <<"www", "a", "test">>
HostB == <<"www", "b", "test">>
HostOther == <<"cdn", "other", "test">>

Root(h) == Url(h, <<>>, FALSE, << >>, "")

\* the domain strings handed to crawlDomain
Domains == {Root(HostA), Root(HostB)}

NumericIds == {"123456", "700384"}

\* new URL(url) does not throw
IsParsed(u) == "host" \in DOMAIN u

\* normalizeUrl with its two replace calls in the other order
normalizeUrl_StripsFirst(u) ==
  LET NonEmpty(x) == x # ""
      n == Len(u.path)
      \* the trailing slash goes first; a doubled one leaves a slash behind
      slashLeft == u.slash /\ n > 0 /\ u.path[n] = ""
  IN  IF IsParsed(u)
      THEN Url(u.host, SelectSeq(u.path, NonEmpty), slashLeft, << >>, "")
      ELSE u

\* url.utils.js normalizeUrl: clear search and hash, collapse repeated
\* slashes, strip the trailing slash; a string that does not parse is
\* returned as it is
normalizeUrl(u) ==
  LET NonEmpty(x) == x # ""
  IN  IF IsParsed(u)
      THEN Url(u.host, SelectSeq(u.path, NonEmpty), FALSE, << >>, "")
      ELSE u

\* /(utm_|ref|source|track)/i.test(key), for the keys of the model
IsTrackingKey(key) == key \in {"ref", "utm_source", "preference"}

\* URLSearchParams.set: the first pair of that key takes the value, a new key
\* goes to the end
ParamsSet(params, key, value) ==
  IF \E i \in 1..Len(params) : params[i][1] = key
  THEN [i \in 1..Len(params) |->
          IF params[i][1] = key THEN <<key, value>> ELSE params[i]]
  ELSE Append(params, <<key, value>>)

\* searchParams.forEach of the filtering normalizeUrl
RECURSIVE FilterParams(_, _)
FilterParams(query, params) ==
  IF query = << >> THEN params
  ELSE LET key == Head(query)[1]
           value == Head(query)[2]
       IN  FilterParams(Tail(query),
                        IF IsTrackingKey(key) THEN params
                        ELSE ParamsSet(params, key, value))

\* the normalizeUrl that filters the query instead of clearing it
normalizeUrlFiltering(u) ==
  LET NonEmpty(x) == x # ""
  IN  IF IsParsed(u)
      THEN Url(u.host, SelectSeq(u.path, NonEmpty), FALSE,
               FilterParams(u.query, << >>), "")
      ELSE u

\* hostname.replace(/^www\./, '')
StripWww(h) == IF Len(h) > 0 /\ h[1] = "www" THEN Tail(h) ELSE h

\* urlHost.endsWith('.' + baseHost)
IsSubHost(h, base) ==
  /\ Len(h) > Len(base)
  /\ SubSeq(h, Len(h) - Len(base) + 1, Len(h)) = base

isSameDomain(u, base) ==
  LET urlHost == StripWww(u.host)
      baseHost == StripWww(base.host)
  IN  urlHost = baseHost \/ IsSubHost(urlHost, baseHost)

\* url.utils.js isProductUrl restricted to the generic rules: /products/x,
\* /product/x, /p/<..digit>, and a bare numeric segment of 5+ digits unless the
\* path looks like a category, collection, shop or search path
isProductUrl(u) ==
  LET p == u.path
      n == Len(p)
      Pair(a) == \E i \in 1..(n - 1) : p[i] = a /\ p[i + 1] # ""
      PId == \E i \in 1..(n - 1) : p[i] = "p" /\ p[i + 1] \in NumericIds
      Cat == \E i \in 1..n : p[i] \in {"category", "collections", "shop", "search"}
      Num == \E i \in 1..n : p[i] \in NumericIds
  IN  \/ Pair("products")
      \/ Pair("product")
      \/ PId
      \/ (~Cat /\ Num)

\* what a page of a site can link to
PageLinks(h) ==
  { <<>>,
    << Url(h, <<"p", "123456">>, FALSE, << >>, "") >>,
    << Url(h, <<"c", "shoes">>, TRUE, << <<"ref", "1">> >>, ""),
       Url(h, <<"p", "700384">>, FALSE, << >>, "frag") >>,
    << Url(HostOther, <<"p", "123456">>, FALSE, << >>, ""),
       Url(h, <<"c", "shoes">>, FALSE, << >>, "") >> }

(***************************************************************************)
(* State of services/crawler.service (SpecRegistry).                       *)
(***************************************************************************)
VARIABLES
  now,                \* Date.now()
  activeCrawlers,     \* Map domain -> crawler (NoCrawler: no entry)
  crawlerHeartbeats,  \* Map domain -> time of last heartbeat (NoBeat: no entry)
  crawler,            \* the crawler object and the position of each crawlDomain call
  outputFiles,        \* the output directory: file name -> written result
  persisted,          \* history: the results each crawlDomain call has written
  emitted,            \* history: lifecycle events sent to each call's socket
  stopCalls,          \* stopCrawler invocations waiting in their Promise.race
  stopCount,          \* number of stopCrawler invocations so far
  stopAll,            \* the stopAllCrawlers invocation
  productsAtCancel    \* history: productLinks when cancelRequested was first set

varsRegistry == <<now, activeCrawlers, crawlerHeartbeats, crawler, outputFiles,
                  persisted, emitted, stopCalls, stopCount, stopAll, productsAtCancel>>

(***************************************************************************)
(* State of the service built on BaseCrawler (SpecBase).                   *)
(***************************************************************************)
VARIABLES
  crawlers,               \* normalized domain -> an entry for the BaseCrawler exists
  crawlResults,           \* normalized domain -> the result read back from its file
  isGlobalStopRequested,
  baseCrawler,            \* the BaseCrawler object and the position of its crawlDomain call
  closeCalls,             \* position of stopCrawler, stopAllCrawlers and of their close()
  cancelAt                \* history: Date.now() when stopRequested was first set

varsBase == <<crawlers, crawlResults, isGlobalStopRequested, baseCrawler, closeCalls,
              cancelAt>>

(***************************************************************************)
(* State of the socket server and of crawler.js (SpecSocket).              *)
(***************************************************************************)
VARIABLES
  crawlCancelled,         \* global.crawlCancelled
  activeCrawling,         \* per socket connection
  site,                   \* the crawlSite call started for each socket
  stopAsked               \* history: the socket has sent stopCrawl

varsSocket == <<crawlCancelled, activeCrawling, site, stopAsked>>

(***************************************************************************)
(* Calls of the URL utilities (SpecUrl).                                   *)
(***************************************************************************)
VARIABLES
  normalizeCall           \* history: the last call of a normalizeUrl and its result

varsUrl == <<normalizeCall>>

(***************************************************************************)
(* Calls of crawlMultipleDomains on the BaseCrawler service (SpecMulti).   *)
(***************************************************************************)
VARIABLES
  multi                   \* each call: its position, its options, the domains its
                          \* loop has still to take, and history: stopAllCrawlers
                          \* had been called before the call was made, and the
                          \* number of crawlers the call has made

varsMulti == <<multi>>

vars == <<varsRegistry, varsBase, varsSocket, varsUrl, varsMulti>>

\* an action of one generation leaves the state of the others alone
OnlyRegistry(A) == A /\ UNCHANGED <<varsBase, varsSocket, varsUrl, varsMulti>>

Sessions == 1..NumSessions
NoCrawler == 0
NoBeat == -1
NotCancelled == [cancelled |-> FALSE, products |-> {}]

MaxPagesOptions == {1, DefaultMaxPages}
\* every session is started with a socket attached
IoOptions == {TRUE}

NewCrawler ==
  [ pc |-> "idle", domain |-> Root(HostA), timestamp |-> 0, io |-> FALSE,
    browser |-> "none", queue |-> <<>>, visited |-> {}, productLinks |-> {},
    failedUrls |-> {}, url |-> Root(HostA),
    crawlStats |-> [totalPages |-> 0, productsFound |-> 0, crawlCompleted |-> FALSE],
    settings |-> [maxPages |-> DefaultMaxPages, indefiniteCrawling |-> FALSE],
    active |-> FALSE, cancelRequested |-> FALSE, heartbeatUpdater |-> FALSE ]

InitRegistry ==
  /\ now = StartClock
  /\ activeCrawlers = [d \in Domains |-> NoCrawler]
  /\ crawlerHeartbeats = [d \in Domains |-> NoBeat]
  /\ crawler = [s \in Sessions |-> NewCrawler]
  /\ outputFiles = << >>
  /\ persisted = [s \in Sessions |-> << >>]
  /\ emitted = [s \in Sessions |-> << >>]
  /\ stopCalls = {}
  /\ stopCount = 0
  /\ stopAll = [pc |-> "idle", pending |-> {}, savedResults |-> {}]
  /\ productsAtCancel = [s \in Sessions |-> NotCancelled]

NewSite ==
  [ pc |-> "idle", domainName |-> Root(HostA), browser |-> "none", queue |-> << >>,
    visited |-> {}, productUrls |-> {}, failedUrls |-> {}, pagesVisited |-> 0,
    noNewProductsCounter |-> 0, productCountBefore |-> 0, checkCancellation |-> FALSE,
    url |-> Root(HostA), depth |-> 0, cancelled |-> FALSE ]

InitSocket ==
  /\ crawlCancelled = FALSE
  /\ activeCrawling = [s \in Sessions |-> FALSE]
  /\ site = [s \in Sessions |-> NewSite]
  /\ stopAsked = [s \in Sessions |-> FALSE]

\* again: the argument was the result of the call before
NoCall == [fn |-> "none", url |-> Root(HostA), result |-> Root(HostA), again |-> FALSE]

InitUrl == normalizeCall = NoCall

\* crawlerHeartbeats.get(domain) || 0
lastHeartbeat(hb, d) == IF hb[d] = NoBeat THEN 0 ELSE hb[d]

Emit(em, s, c, event) == IF c.io THEN [em EXCEPT ![s] = Append(@, event)] ELSE em

(***************************************************************************)
(* crawlDomain, lines 156-181: the while loop from its condition to the    *)
(* next await (page.goto) or to the end of the loop.                       *)
(***************************************************************************)
\* a loop that fetches the task it shifts whether or not it was visited
LoopHead_NoSkip(c) ==
  IF ~(Len(c.queue) > 0 /\ c.active /\ ~c.cancelRequested)
  THEN [c |-> c, exit |-> TRUE, beat |-> FALSE]
  ELSE IF ~c.settings.indefiniteCrawling /\ c.crawlStats.totalPages >= c.settings.maxPages
  THEN [c |-> c, exit |-> TRUE, beat |-> TRUE]
  ELSE LET url == Head(c.queue)
           rest == [c EXCEPT !.queue = Tail(c.queue)]
       IN  [c |-> [rest EXCEPT !.visited = @ \cup {normalizeUrl(url)},
                               !.crawlStats.totalPages = @ + 1,
                               !.url = url,
                               !.pc = "goto"],
            exit |-> FALSE, beat |-> TRUE]

RECURSIVE LoopHead(_)
LoopHead(c) ==
  IF ~(Len(c.queue) > 0 /\ c.active /\ ~c.cancelRequested)
  THEN [c |-> c, exit |-> TRUE, beat |-> FALSE]
  ELSE IF ~c.settings.indefiniteCrawling /\ c.crawlStats.totalPages >= c.settings.maxPages
  THEN [c |-> c, exit |-> TRUE, beat |-> TRUE]
  ELSE LET url == Head(c.queue)
           rest == [c EXCEPT !.queue = Tail(c.queue)]
       IN  IF normalizeUrl(url) \in c.visited
           THEN LET r == LoopHead(rest) IN [r EXCEPT !.beat = TRUE]
           ELSE [c |-> [rest EXCEPT !.visited = @ \cup {normalizeUrl(url)},
                                    !.crawlStats.totalPages = @ + 1,
                                    !.url = url,
                                    !.pc = "goto"],
                 exit |-> FALSE, beat |-> TRUE]

\* processLinks, lines 392-421
RECURSIVE processLinks(_, _)
processLinks(links, c) ==
  IF links = << >> THEN c
  ELSE LET link == Head(links)
           normalizedLink == normalizeUrl(link)
           next ==
             IF ~isSameDomain(link, c.domain) THEN c
             ELSE IF isProductUrl(normalizedLink)
             THEN [c EXCEPT !.productLinks = @ \cup {normalizedLink}]
             ELSE IF normalizedLink \notin c.visited
             THEN [c EXCEPT !.queue = Append(@, normalizedLink)]
             ELSE c
       IN  processLinks(Tail(links), next)

\* a result that counts a crawl whose queue ran empty as completed
CrawlResult_ByQueue(c) ==
  [ domain |-> c.domain,
    products |-> c.productLinks,
    totalLinks |-> Cardinality(c.productLinks),
    stats |-> [ totalPages |-> c.crawlStats.totalPages,
                productsFound |-> Cardinality(c.productLinks),
                crawlCompleted |-> c.queue = << >> \/ ~c.cancelRequested ],
    timestamp |-> now ]

\* the result object of lines 308-319
CrawlResult(c) ==
  [ domain |-> c.domain,
    products |-> c.productLinks,
    totalLinks |-> Cardinality(c.productLinks),
    stats |-> [ totalPages |-> c.crawlStats.totalPages,
                productsFound |-> Cardinality(c.productLinks),
                crawlCompleted |-> ~c.cancelRequested ],
    timestamp |-> now ]

FileName(c) == <<c.domain, c.timestamp>>

WriteFile(files, name, content) ==
  [n \in (DOMAIN files) \cup {name} |-> IF n = name THEN content ELSE files[n]]

\* Finish with the registry entry left in place on natural completion
Finish_KeepsEntry(s, c, ac, hb, em) ==
  LET result == CrawlResult(c)
      done == [c EXCEPT !.crawlStats = result.stats,
                        !.active = FALSE,
                        !.heartbeatUpdater = FALSE,
                        !.browser = IF @ = "open" THEN "closing" ELSE @,
                        !.pc = "closing"]
  IN  /\ outputFiles' = WriteFile(outputFiles, FileName(c), result)
      /\ persisted' = [persisted EXCEPT ![s] = Append(@, result)]
      /\ emitted' = Emit(em, s, c, "crawl_complete")
      /\ crawler' = [crawler EXCEPT ![s] = done]
      /\ crawlerHeartbeats' = [hb EXCEPT ![c.domain] = NoBeat]
      /\ activeCrawlers' = ac

\* lines 307-361: save the result, emit crawl_complete, then the finally block
\* up to its await of browser.close()
Finish(s, c, ac, hb, em) ==
  LET result == CrawlResult(c)
      done == [c EXCEPT !.crawlStats = result.stats,
                        !.active = FALSE,
                        !.heartbeatUpdater = FALSE,
                        !.browser = IF @ = "open" THEN "closing" ELSE @,
                        !.pc = "closing"]
  IN  /\ outputFiles' = WriteFile(outputFiles, FileName(c), result)
      /\ persisted' = [persisted EXCEPT ![s] = Append(@, result)]
      /\ emitted' = Emit(em, s, c, "crawl_complete")
      /\ crawler' = [crawler EXCEPT ![s] = done]
      /\ crawlerHeartbeats' = [hb EXCEPT ![c.domain] = NoBeat]
      /\ activeCrawlers' = IF ~c.cancelRequested
                           THEN [ac EXCEPT ![c.domain] = NoCrawler]
                           ELSE ac

\* run the loop of session s from its top
Continue(s, c0, ac, hb, em) ==
  LET r == LoopHead(c0)
      beaten == IF r.beat THEN [hb EXCEPT ![c0.domain] = now] ELSE hb
  IN  IF r.exit
      THEN Finish(s, r.c, ac, beaten, em)
      ELSE /\ crawler' = [crawler EXCEPT ![s] = r.c]
           /\ crawlerHeartbeats' = beaten
           /\ activeCrawlers' = ac
           /\ emitted' = em
           /\ UNCHANGED <<outputFiles, persisted>>

\* crawlDomain is called: lines 46-81 up to the await of puppeteer.launch
CrawlDomain(s, d, maxPages, io) ==
  /\ crawler[s].pc = "idle"
  /\ \A t \in Sessions : t < s => crawler[t].pc # "idle"
  /\ s = 1 => d = Root(HostA)       \* the two domains are interchangeable
  /\ crawler' = [crawler EXCEPT ![s] =
       [NewCrawler EXCEPT !.pc = "launch", !.domain = d, !.timestamp = now,
                          !.io = io, !.settings.maxPages = maxPages]]
  /\ UNCHANGED <<now, activeCrawlers, crawlerHeartbeats, outputFiles, persisted,
                 emitted, stopCalls, stopCount, stopAll, productsAtCancel>>

\* the browser is up: lines 83-152 register the crawler, start the heartbeat
\* updater, seed the queue, emit crawl_start, and the loop runs to its first await
LaunchReturns(s) ==
  /\ crawler[s].pc = "launch"
  /\ LET c == [crawler[s] EXCEPT !.browser = "open", !.active = TRUE,
                                 !.heartbeatUpdater = TRUE,
                                 !.queue = <<crawler[s].domain>>]
     IN  Continue(s, c,
                  [activeCrawlers EXCEPT ![c.domain] = s],
                  [crawlerHeartbeats EXCEPT ![c.domain] = now],
                  Emit(emitted, s, c, "crawl_start"))
  /\ UNCHANGED <<now, stopCalls, stopCount, stopAll, productsAtCancel>>

\* puppeteer.launch or newPage rejects: crawlDomain rejects before registering
LaunchFails(s) ==
  /\ crawler[s].pc = "launch"
  /\ crawler' = [crawler EXCEPT ![s].pc = "rejected"]
  /\ UNCHANGED <<now, activeCrawlers, crawlerHeartbeats, outputFiles, persisted,
                 emitted, stopCalls, stopCount, stopAll, productsAtCancel>>

\* an inner catch that gives the session up
CatchPageError_EndsSession(s) ==
  Finish(s, crawler[s], activeCrawlers, crawlerHeartbeats, emitted)

\* the inner catch, lines 295-304
CatchPageError(s) ==
  LET c == crawler[s]
  IN  IF c.cancelRequested
      THEN Finish(s, c, activeCrawlers, crawlerHeartbeats, emitted)
      ELSE Continue(s, [c EXCEPT !.failedUrls = @ \cup {c.url}],
                    activeCrawlers, crawlerHeartbeats, emitted)

\* page.goto resolves: lines 210-217
GotoReturns(s) ==
  /\ crawler[s].pc = "goto"
  /\ crawler[s].browser # "dead"
  /\ IF crawler[s].cancelRequested
     THEN Finish(s, crawler[s], activeCrawlers, crawlerHeartbeats, emitted)
     ELSE /\ crawler' = [crawler EXCEPT ![s].pc = "extract"]
          /\ UNCHANGED <<activeCrawlers, crawlerHeartbeats, outputFiles, persisted, emitted>>
  /\ UNCHANGED <<now, stopCalls, stopCount, stopAll, productsAtCancel>>

\* page.goto rejects (timeout, network error, browser gone)
GotoFails(s) ==
  /\ crawler[s].pc = "goto"
  /\ CatchPageError(s)
  /\ UNCHANGED <<now, stopCalls, stopCount, stopAll, productsAtCancel>>

\* extractLinks resolves: lines 217-234, then back to the top of the loop
ExtractReturns(s, links) ==
  /\ crawler[s].pc = "extract"
  /\ crawler[s].browser # "dead"
  /\ Continue(s, processLinks(links, crawler[s]),
              activeCrawlers, crawlerHeartbeats, emitted)
  /\ UNCHANGED <<now, stopCalls, stopCount, stopAll, productsAtCancel>>

\* extractLinks rejects
ExtractFails(s) ==
  /\ crawler[s].pc = "extract"
  /\ CatchPageError(s)
  /\ UNCHANGED <<now, stopCalls, stopCount, stopAll, productsAtCancel>>

\* browser.close() of the finally block settles: crawlDomain returns
CloseReturns(s) ==
  /\ crawler[s].pc = "closing"
  /\ crawler' = [crawler EXCEPT ![s].pc = "done",
                                ![s].browser = IF @ = "closing" THEN "closed" ELSE @]
  /\ UNCHANGED <<now, activeCrawlers, crawlerHeartbeats, outputFiles, persisted,
                 emitted, stopCalls, stopCount, stopAll, productsAtCancel>>

(***************************************************************************)
(* stopCrawler, lines 441-544.                                             *)
(***************************************************************************)
Registered(ac) == {d \in Domains : ac[d] # NoCrawler}

RECURSIVE Enumerate(_)
Enumerate(S) ==
  IF S = {} THEN << >>
  ELSE LET x == CHOOSE y \in S : TRUE IN <<x>> \o Enumerate(S \ {x})

IndexOf(seq, x) == CHOOSE i \in 1..Len(seq) : seq[i] = x

\* lines 442-490 for every domain of D (each has a crawler): set the flags,
\* empty the queue, drop the heartbeat, build the result, emit crawl_stopping,
\* call browser.close() and wait in the Promise.race
StopCrawlerBegin(D, origin) ==
  LET order == Enumerate(D)
      targets == {activeCrawlers[d] : d \in D}
      Call(d) == [ id |-> stopCount + IndexOf(order, d),
                   domain |-> d,
                   crawler |-> activeCrawlers[d],
                   origin |-> origin,
                   result |-> [ domain |-> d,
                                products |-> crawler[activeCrawlers[d]].productLinks,
                                count |-> Cardinality(crawler[activeCrawlers[d]].productLinks),
                                status |-> "stopped" ] ]
  IN  /\ D # {}
      /\ D \subseteq Registered(activeCrawlers)
      /\ stopCount + Cardinality(D) <= MaxStops
      /\ crawler' = [s \in Sessions |->
           IF s \in targets
           THEN [crawler[s] EXCEPT !.cancelRequested = TRUE,
                                   !.active = FALSE,
                                   !.queue = << >>,
                                   !.browser = IF @ = "open" THEN "closing" ELSE @]
           ELSE crawler[s]]
      /\ crawlerHeartbeats' = [d \in Domains |->
           IF d \in D THEN NoBeat ELSE crawlerHeartbeats[d]]
      /\ emitted' = [s \in Sessions |->
           IF s \in targets /\ crawler[s].io
           THEN Append(emitted[s], "crawl_stopping") ELSE emitted[s]]
      /\ stopCalls' = stopCalls \cup {Call(d) : d \in D}
      /\ stopCount' = stopCount + Cardinality(D)
      /\ productsAtCancel' = [s \in Sessions |->
           IF s \in targets /\ ~crawler[s].cancelRequested
           THEN [cancelled |-> TRUE, products |-> crawler[s].productLinks]
           ELSE productsAtCancel[s]]
      /\ UNCHANGED <<now, activeCrawlers, outputFiles, persisted>>

\* an external stop request for one domain (route handler, socket disconnect)
StopCrawler(d) ==
  /\ StopCrawlerBegin({d}, "external")
  /\ UNCHANGED stopAll

\* the race is over: lines 495-543 kill the browser process, delete the
\* registry entry of the domain and emit crawl_forcibly_stopped
StopCrawlerFinish(k) ==
  /\ k \in stopCalls
  /\ crawler' = [crawler EXCEPT ![k.crawler].browser = "dead"]
  /\ activeCrawlers' = [activeCrawlers EXCEPT ![k.domain] = NoCrawler]
  /\ emitted' = Emit(emitted, k.crawler, crawler[k.crawler], "crawl_forcibly_stopped")
  /\ stopCalls' = stopCalls \ {k}
  /\ stopAll' = IF k.origin = "stopAll"
                THEN [stopAll EXCEPT !.pending = @ \ {k.id},
                                     !.savedResults = @ \cup {k.result}]
                ELSE stopAll
  /\ UNCHANGED <<now, crawlerHeartbeats, outputFiles, persisted, stopCount, productsAtCancel>>

\* stopAllCrawlers, lines 549-563: every stopCrawler call starts at once
StopAllCrawlers ==
  /\ stopAll.pc = "idle"
  /\ LET D == Registered(activeCrawlers)
     IN  IF D = {}
         THEN /\ stopAll' = [stopAll EXCEPT !.pc = "done"]
              /\ UNCHANGED <<now, activeCrawlers, crawlerHeartbeats, crawler, outputFiles,
                             persisted, emitted, stopCalls, stopCount, productsAtCancel>>
         ELSE /\ StopCrawlerBegin(D, "stopAll")
              /\ stopAll' = [stopAll EXCEPT !.pc = "waiting",
                               !.pending = {stopCount + i : i \in 1..Cardinality(D)}]

\* lines 565-568: Promise.all settles and the saved results are returned
StopAllReturns ==
  /\ stopAll.pc = "waiting"
  /\ stopAll.pending = {}
  /\ stopAll' = [stopAll EXCEPT !.pc = "done"]
  /\ UNCHANGED <<now, activeCrawlers, crawlerHeartbeats, crawler, outputFiles,
                 persisted, emitted, stopCalls, stopCount, productsAtCancel>>

(***************************************************************************)
(* Heartbeats, lines 22-35 and 111-118.                                    *)
(***************************************************************************)
\* the comparison with its operands exchanged
Stalled_Swapped(d) ==
  lastHeartbeat(crawlerHeartbeats, d) - now > MAX_MISSED_HEARTBEATS * HEARTBEAT_INTERVAL

Stalled(d) ==
  now - lastHeartbeat(crawlerHeartbeats, d) > MAX_MISSED_HEARTBEATS * HEARTBEAT_INTERVAL

\* one run of the heartbeatChecker interval callback
heartbeatChecker ==
  /\ StopCrawlerBegin({d \in Registered(activeCrawlers) : Stalled(d)}, "watchdog")
  /\ UNCHANGED stopAll

\* one run of the heartbeatUpdater interval callback of a crawlDomain call
heartbeatUpdater(s) ==
  LET c == crawler[s]
  IN  /\ c.heartbeatUpdater
      /\ IF activeCrawlers[c.domain] # NoCrawler /\ ~c.cancelRequested
         THEN /\ crawlerHeartbeats' = [crawlerHeartbeats EXCEPT ![c.domain] = now]
              /\ UNCHANGED crawler
         ELSE /\ crawler' = [crawler EXCEPT ![s].heartbeatUpdater = FALSE]
              /\ UNCHANGED crawlerHeartbeats
      /\ UNCHANGED <<now, activeCrawlers, outputFiles, persisted, emitted,
                     stopCalls, stopCount, stopAll, productsAtCancel>>

\* the steps of the crawlDomain calls of S and of everything that can stop them
CrawlSteps(S) ==
  \/ \E s \in S, d \in Domains, m \in MaxPagesOptions, io \in IoOptions :
       CrawlDomain(s, d, m, io)
  \/ \E s \in S : LaunchReturns(s)
  \/ \E s \in S : LaunchFails(s)
  \/ \E s \in S : GotoReturns(s)
  \/ \E s \in S : GotoFails(s)
  \/ \E s \in S : \E links \in PageLinks(crawler[s].domain.host) :
       ExtractReturns(s, links)
  \/ \E s \in S : ExtractFails(s)
  \/ \E s \in S : CloseReturns(s)
  \/ \E s \in S : heartbeatUpdater(s)

StopSteps ==
  \/ \E d \in Domains : StopCrawler(d)
  \/ \E k \in stopCalls : StopCrawlerFinish(k)
  \/ StopAllCrawlers
  \/ StopAllReturns
  \/ heartbeatChecker

\* What the runtime guarantees: the watchdog interval keeps firing, the
\* Promise.race of stopCrawler ends after 500 ms at the latest, and a call into a
\* killed browser rejects.  A call into a live browser may take arbitrarily long.
DriverGone(s) ==
  /\ crawler[s].browser = "dead"
  /\ (GotoFails(s) \/ ExtractFails(s))

FairRegistry ==
  /\ WF_vars(OnlyRegistry(heartbeatChecker))
  /\ WF_vars(OnlyRegistry(\E k \in stopCalls : StopCrawlerFinish(k)))
  /\ WF_vars(OnlyRegistry(DriverGone(1)))

TypeOKRegistry ==
  /\ now \in StartClock..MaxTime
  /\ \A d \in Domains : activeCrawlers[d] \in Sessions \cup {NoCrawler}
  /\ \A s \in Sessions : crawler[s].pc \in
       {"idle", "launch", "rejected", "goto", "extract", "closing", "done"}

(***************************************************************************)
(* BaseCrawler (crawlers/base.crawler.js, the class of lines 371-806) and  *)
(* the service that drives it (crawlDomain, stopCrawler, stopAllCrawlers   *)
(* over the `crawlers` object).  One BaseCrawler is created.               *)
(***************************************************************************)
NAVIGATION_TIMEOUT == 30
STOP_NAVIGATION_TIMEOUT == 5
BaseMaxPages == 300
BaseMaxDepth == 3
MaxQueueLength == 1000
CategorySlot == 10

NoTime == NoBeat
Callers == {"stopCrawler", "stopAllCrawlers", "crawlDomain"}
LoopCalls == {"newPage", "setupPage", "goto", "stopPageClose", "waitForTimeout",
              "scrollPage", "clickLoadMoreButton", "isProductPageByDOM",
              "extractLinks", "pageClose"}

\* url.utils.js getNormalizedDomain: the hostname without a leading www.
getNormalizedDomain(d) == StripWww(d.host)

NormalizedDomains == {getNormalizedDomain(d) : d \in Domains}

\* url.utils.js getStartingPoints for a URL with protocol: www. is put in front
\* of a hostname that starts with none of www., luxury., shop.
getStartingPoints(u) ==
  IF u.host[1] \in {"www", "luxury", "shop"}
  THEN << u >>
  ELSE << Url(<<"www">> \o u.host, u.path, FALSE, << >>, "") >>

\* the constructor's formattedDomain for a domain without protocol
formattedDomain(host) == Root(<<"www">> \o host)

\* CATEGORY_PATTERNS on the pathname: /collections/, /c/, /category/, and /men,
\* /women, /kids as a whole segment (no segment of the model starts with c-)
isCategoryUrl(u) ==
  LET p == u.path
      n == Len(p)
      Inner(a) == \E i \in 1..n : p[i] = a /\ (i < n \/ u.slash)
  IN  \/ Inner("collections") \/ Inner("c") \/ Inner("category")
      \/ \E i \in 1..n : p[i] \in {"men", "women", "kids"}

\* EXCLUDE_PATTERNS on the whole link, for the links of the model: a path that
\* starts like /cart, /search, /api, /cdn, a host that follows the // with
\* api, cdn or static, a query that starts with ref or utm_, and any fragment
shouldExcludeUrl(u) ==
  /\ ~isProductUrl(u)
  /\ \/ \E i \in 1..Len(u.path) : u.path[i] \in {"cart", "checkout", "login", "search"}
     \/ u.host[1] \in {"api", "cdn", "static"}
     \/ (u.query # << >> /\ u.query[1][1] \in {"ref", "utm_source"})
     \/ u.hash # ""

\* options: what crawlDomain hands to the constructor, which takes the domain only;
\* arg: the domain as crawlDomain was called with it; currentUrl: page.url() of
\* the page being processed
NewBaseCrawler ==
  [ pc |-> "idle", arg |-> Root(HostA), domain |-> << >>, browser |-> "none",
    page |-> "none",
    visited |-> {}, productLinks |-> {}, queue |-> << >>, failedUrls |-> {},
    maxPages |-> BaseMaxPages, maxDepth |-> BaseMaxDepth, startingPoints |-> << >>,
    options |-> [maxPages |-> DefaultMaxPages],
    events |-> FALSE,
    crawlStats |-> [startTime |-> NoTime, endTime |-> NoTime, totalPages |-> 0,
                    totalProducts |-> 0, wasCompleted |-> FALSE],
    stopRequested |-> FALSE,
    url |-> Root(HostA), currentUrl |-> Root(HostA), depth |-> 0, pagesVisited |-> 0,
    deadline |-> NoTime ]

InitBase ==
  /\ crawlers = [h \in NormalizedDomains |-> FALSE]
  /\ crawlResults = [h \in NormalizedDomains |-> << >>]
  /\ isGlobalStopRequested = FALSE
  /\ baseCrawler = NewBaseCrawler
  /\ closeCalls = [k \in Callers |-> "idle"]
  /\ cancelAt = NoTime

\* lines 707-738, one link; slot is the 10 of Math.min(10, this.queue.length)
queueLink(c, link, depth, slot) ==
  LET normalizedLink == normalizeUrl(link)
      item == [url |-> link, depth |-> depth]
      q == c.queue
      at == IF slot < Len(q) THEN slot ELSE Len(q)
  IN  IF \/ normalizedLink \in c.visited
         \/ \E i \in 1..Len(q) : q[i].url = normalizedLink
         \/ ~isSameDomain(link, Root(c.domain))
         \/ shouldExcludeUrl(link)
      THEN c
      ELSE IF isProductUrl(link)
      THEN [c EXCEPT !.queue = <<item>> \o q]
      ELSE IF isCategoryUrl(link)
      THEN [c EXCEPT !.queue = SubSeq(q, 1, at) \o <<item>> \o SubSeq(q, at + 1, Len(q))]
      ELSE [c EXCEPT !.queue = Append(q, item)]

RECURSIVE queueLinksFrom(_, _, _, _)
queueLinksFrom(c, links, depth, slot) ==
  IF links = << >> THEN c
  ELSE queueLinksFrom(queueLink(c, Head(links), depth, slot), Tail(links), depth, slot)

\* lines 707-738; limit is the 1000 of the slice
queueLinks(c, links, depth, slot, limit) ==
  LET queued == queueLinksFrom(c, links, depth, slot)
  IN  IF Len(queued.queue) > limit
      THEN [queued EXCEPT !.queue = SubSeq(@, 1, limit)]
      ELSE queued

\* The objects an operation of the crawler works on: the crawler, the output
\* directory, and the histories of what was written and emitted.
World == [c |-> baseCrawler, files |-> outputFiles, hist |-> persisted[1],
          em |-> emitted[1]]

emit(w, event) == IF w.c.events THEN [w EXCEPT !.em = Append(@, event)] ELSE w

\* saveResults that leaves the products out of the record of a stopped crawl
saveResults_DropsOnStop(w) ==
  LET c == IF w.c.crawlStats.endTime = NoTime
           THEN [w.c EXCEPT !.crawlStats.endTime = now]
           ELSE w.c
      results ==
        [ domain |-> c.domain,
          products |-> IF c.stopRequested THEN {} ELSE c.productLinks,
          totalLinks |-> Cardinality(c.productLinks),
          stats |-> [ pagesVisited |-> c.crawlStats.totalPages,
                      productsFound |-> c.crawlStats.totalProducts,
                      crawlCompleted |-> ~c.stopRequested ],
          timestamp |-> now ]
      filename == <<c.domain, now>>
      saved == [w EXCEPT !.c = c,
                         !.files = WriteFile(w.files, filename, results),
                         !.hist = Append(w.hist, results)]
  IN  IF c.stopRequested THEN emit(saved, "crawl_stopped") ELSE saved

\* lines 761-803
saveResults(w) ==
  LET c == IF w.c.crawlStats.endTime = NoTime
           THEN [w.c EXCEPT !.crawlStats.endTime = now]
           ELSE w.c
      results ==
        [ domain |-> c.domain,
          products |-> c.productLinks,
          totalLinks |-> Cardinality(c.productLinks),
          stats |-> [ pagesVisited |-> c.crawlStats.totalPages,
                      productsFound |-> c.crawlStats.totalProducts,
                      crawlCompleted |-> ~c.stopRequested ],
          timestamp |-> now ]
      filename == <<c.domain, now>>
      saved == [w EXCEPT !.c = c,
                         !.files = WriteFile(w.files, filename, results),
                         !.hist = Append(w.hist, results)]
  IN  IF c.stopRequested THEN emit(saved, "crawl_stopped") ELSE saved

\* lines 473-492: the while loop from its condition to the next await
\* (browser.newPage) or to the end of the loop
RECURSIVE crawlLoop(_)
crawlLoop(c) ==
  IF ~(Len(c.queue) > 0 /\ c.pagesVisited < c.maxPages /\ ~c.stopRequested)
  THEN [c EXCEPT !.pc = "end"]
  ELSE LET item == Head(c.queue)
           rest == [c EXCEPT !.queue = Tail(@)]
           normalizedUrl == normalizeUrl(item.url)
       IN  IF normalizedUrl \in c.visited \/ item.depth > c.maxDepth
           THEN crawlLoop(rest)
           ELSE [rest EXCEPT !.visited = @ \cup {normalizedUrl},
                             !.url = item.url,
                             !.currentUrl = item.url,
                             !.depth = item.depth,
                             !.pc = "newPage"]

\* lines 539-555: from the product check to page.close()
AfterProductCheck(c, isProduct) ==
  LET found == IF isProduct
               THEN [c EXCEPT !.productLinks = @ \cup {normalizeUrl(c.currentUrl)},
                              !.crawlStats.totalProducts =
                                 Cardinality(c.productLinks \cup {normalizeUrl(c.currentUrl)})]
               ELSE c
  IN  IF ~found.stopRequested /\ found.depth < found.maxDepth
      THEN [found EXCEPT !.pc = "extractLinks"]
      ELSE [found EXCEPT !.pc = "pageClose"]

\* lines 530-537
AfterClickLoadMore(c) ==
  IF ~isProductUrl(c.currentUrl) /\ ~c.stopRequested
  THEN [c EXCEPT !.pc = "isProductPageByDOM"]
  ELSE AfterProductCheck(c, isProductUrl(c.currentUrl))

\* lines 524-528
AfterScrollPage(c) ==
  IF ~c.stopRequested THEN [c EXCEPT !.pc = "clickLoadMoreButton"]
  ELSE AfterClickLoadMore(c)

\* lines 514-522
AfterWaitForTimeout(c) ==
  IF ~c.stopRequested THEN [c EXCEPT !.pc = "scrollPage"]
  ELSE AfterScrollPage(c)

\* close(), lines 413-421: up to the await of browser.pages()
closeBegin(w) ==
  LET flagged == [w EXCEPT !.c.stopRequested = TRUE]
  IN  IF flagged.c.crawlStats.startTime # NoTime /\ flagged.c.crawlStats.endTime = NoTime
      THEN saveResults([flagged EXCEPT !.c.crawlStats.endTime = now])
      ELSE flagged

\* close(), lines 442-450
closeEnd(c) ==
  [c EXCEPT !.browser = "closed", !.visited = {}, !.queue = << >>, !.failedUrls = {}]

\* crawl(), lines 579-601, and the caller's lines 53-67 up to its await inside
\* close()
crawlEnd(w) ==
  LET ended == [w EXCEPT !.c.crawlStats.endTime = now,
                         !.c.crawlStats.wasCompleted = ~w.c.stopRequested]
      first == saveResults(ended)
      told == emit(first, IF first.c.stopRequested THEN "crawl_stopped"
                          ELSE "crawl_complete")
  IN  saveResults(IF ended.c.events THEN told ELSE ended)

\* the world an operation leaves behind
Store(w) ==
  /\ baseCrawler' = w.c
  /\ outputFiles' = w.files
  /\ persisted' = [persisted EXCEPT ![1] = w.hist]
  /\ emitted' = [emitted EXCEPT ![1] = w.em]

\* the state after a step of crawl() that leaves the world as w (pc "end": the
\* loop is over and crawl() returns)
Leave(w) ==
  IF w.c.pc # "end"
  THEN /\ Store(w)
       /\ UNCHANGED <<crawlers, crawlResults, closeCalls>>
  ELSE LET done == crawlEnd(w)
           closing == closeBegin(done)
           hasBrowser == closing.c.browser = "open"
       IN  /\ crawlResults' = [crawlResults EXCEPT ![w.c.domain] =
                                 done.files[<<w.c.domain, now>>]]
           /\ crawlers' = [crawlers EXCEPT ![w.c.domain] = FALSE]
           /\ baseCrawler' = IF hasBrowser THEN [closing.c EXCEPT !.pc = "closing"]
                             ELSE [closeEnd(closing.c) EXCEPT !.pc = "done"]
           /\ closeCalls' = [closeCalls EXCEPT !["crawlDomain"] =
                               IF hasBrowser THEN "pages" ELSE "returned"]
           /\ outputFiles' = closing.files
           /\ persisted' = [persisted EXCEPT ![1] = closing.hist]
           /\ emitted' = [emitted EXCEPT ![1] = closing.em]

\* the loop goes on from its condition
Loop(w) == Leave([w EXCEPT !.c = crawlLoop(w.c)])

OnlyBase(A) ==
  A /\ UNCHANGED <<activeCrawlers, crawlerHeartbeats, crawler, stopCalls, stopCount,
                   stopAll, productsAtCancel, varsSocket, varsUrl, varsMulti>>

\* the browser answers calls on the crawler's page
PageAlive(c) == c.browser = "open" /\ c.page = "open"

\* crawlDomain, lines 22-47: up to the await of crawler.init()
BaseCrawlDomain(d, options, events) ==
  LET normalizedDomain == getNormalizedDomain(d)
  IN  /\ baseCrawler.pc = "idle"
      /\ ~crawlers[normalizedDomain]
      /\ baseCrawler' =
           [NewBaseCrawler EXCEPT
              !.pc = "init",
              !.arg = d,
              !.domain = normalizedDomain,
              !.options = options,
              !.startingPoints = getStartingPoints(formattedDomain(normalizedDomain)),
              !.events = events]
      /\ UNCHANGED <<now, outputFiles, persisted, emitted, crawlers, crawlResults,
                     isGlobalStopRequested, closeCalls, cancelAt>>

\* crawlDomain line 50 and crawl(), lines 453-492
InitReturns ==
  LET c == baseCrawler
      started ==
        [c EXCEPT !.browser = "open",
                  !.crawlStats.startTime = now,
                  !.queue = [i \in 1..Len(c.startingPoints) |->
                               [url |-> c.startingPoints[i], depth |-> 0]],
                  !.visited = {},
                  !.productLinks = {},
                  !.failedUrls = {},
                  !.stopRequested = FALSE,
                  !.pagesVisited = 0]
      w == emit([World EXCEPT !.c = started], "crawl_start")
  IN  /\ c.pc = "init"
      /\ baseCrawler' = crawlLoop(w.c)
      /\ emitted' = [emitted EXCEPT ![1] = w.em]
      /\ crawlers' = [crawlers EXCEPT ![c.domain] = TRUE]
      /\ UNCHANGED <<now, outputFiles, persisted, crawlResults, isGlobalStopRequested,
                     closeCalls, cancelAt>>

\* crawlDomain, lines 77-91: init() rejects; crawlers has no entry under the
\* domain as it was passed in
InitFails ==
  /\ baseCrawler.pc = "init"
  /\ baseCrawler' = [baseCrawler EXCEPT !.pc = "rejected"]
  /\ UNCHANGED <<now, outputFiles, persisted, emitted, crawlers, crawlResults,
                 isGlobalStopRequested, closeCalls, cancelAt>>

\* line 494
NewPageReturns ==
  /\ baseCrawler.pc = "newPage"
  /\ baseCrawler.browser = "open"
  /\ baseCrawler' = [baseCrawler EXCEPT !.page = "open", !.pc = "setupPage"]
  /\ UNCHANGED <<now, outputFiles, persisted, emitted, crawlers, crawlResults,
                 isGlobalStopRequested, closeCalls, cancelAt>>

\* lines 495-506: the navigation timeout is fixed when page.goto is called
SetupPageReturns ==
  LET navigationTimeout == IF baseCrawler.stopRequested THEN STOP_NAVIGATION_TIMEOUT
                           ELSE NAVIGATION_TIMEOUT
  IN  /\ baseCrawler.pc = "setupPage"
      /\ PageAlive(baseCrawler)
      /\ baseCrawler' = [baseCrawler EXCEPT !.deadline = now + navigationTimeout,
                                            !.pc = "goto"]
      /\ UNCHANGED <<now, outputFiles, persisted, emitted, crawlers, crawlResults,
                     isGlobalStopRequested, closeCalls, cancelAt>>

\* lines 508-515
GotoResolves ==
  /\ baseCrawler.pc = "goto"
  /\ PageAlive(baseCrawler)
  /\ baseCrawler' = [baseCrawler EXCEPT
                       !.deadline = NoTime,
                       !.pc = IF baseCrawler.stopRequested THEN "stopPageClose"
                              ELSE "waitForTimeout"]
  /\ UNCHANGED <<now, outputFiles, persisted, emitted, crawlers, crawlResults,
                 isGlobalStopRequested, closeCalls, cancelAt>>

\* lines 503-518: the navigation is redirected, and page.url() is the address
\* it ended at
GotoRedirects(target) ==
  /\ baseCrawler.pc = "goto"
  /\ PageAlive(baseCrawler)
  /\ target # baseCrawler.url
  /\ baseCrawler' = [baseCrawler EXCEPT
                       !.currentUrl = target,
                       !.deadline = NoTime,
                       !.pc = IF baseCrawler.stopRequested THEN "stopPageClose"
                              ELSE "waitForTimeout"]
  /\ UNCHANGED <<now, outputFiles, persisted, emitted, crawlers, crawlResults,
                 isGlobalStopRequested, closeCalls, cancelAt>>

\* lines 510-511: page.close() and break
StopPageCloseReturns ==
  /\ baseCrawler.pc = "stopPageClose"
  /\ PageAlive(baseCrawler)
  /\ Leave([World EXCEPT !.c = [baseCrawler EXCEPT !.page = "none", !.pc = "end"]])
  /\ UNCHANGED <<now, isGlobalStopRequested, cancelAt>>

\* lines 515-522: page.waitForTimeout is a timer of the crawler's process
WaitForTimeoutReturns ==
  /\ baseCrawler.pc = "waitForTimeout"
  /\ baseCrawler' = AfterWaitForTimeout(baseCrawler)
  /\ UNCHANGED <<now, outputFiles, persisted, emitted, crawlers, crawlResults,
                 isGlobalStopRequested, closeCalls, cancelAt>>

\* scrollPage, lines 621-641: returns whether or not its calls succeed
ScrollPageReturns ==
  /\ baseCrawler.pc = "scrollPage"
  /\ baseCrawler' = AfterScrollPage(baseCrawler)
  /\ UNCHANGED <<now, outputFiles, persisted, emitted, crawlers, crawlResults,
                 isGlobalStopRequested, closeCalls, cancelAt>>

\* clickLoadMoreButton, lines 643-666: returns whether or not its calls succeed
ClickLoadMoreButtonReturns ==
  /\ baseCrawler.pc = "clickLoadMoreButton"
  /\ baseCrawler' = AfterClickLoadMore(baseCrawler)
  /\ UNCHANGED <<now, outputFiles, persisted, emitted, crawlers, crawlResults,
                 isGlobalStopRequested, closeCalls, cancelAt>>

\* isProductPageByDOM, lines 668-690: false when the evaluation fails
IsProductPageByDOMReturns(isProduct) ==
  /\ baseCrawler.pc = "isProductPageByDOM"
  /\ isProduct => PageAlive(baseCrawler)
  /\ baseCrawler' = AfterProductCheck(baseCrawler, isProduct)
  /\ UNCHANGED <<now, outputFiles, persisted, emitted, crawlers, crawlResults,
                 isGlobalStopRequested, closeCalls, cancelAt>>

\* extractLinks, lines 692-705 ([] when the evaluation fails), and line 551
ExtractLinksReturns(links, slot, limit) ==
  /\ baseCrawler.pc = "extractLinks"
  /\ links # << >> => PageAlive(baseCrawler)
  /\ baseCrawler' = [queueLinks(baseCrawler, links, baseCrawler.depth + 1, slot, limit)
                       EXCEPT !.pc = "pageClose"]
  /\ UNCHANGED <<now, outputFiles, persisted, emitted, crawlers, crawlResults,
                 isGlobalStopRequested, closeCalls, cancelAt>>

\* lines 555-568
PageCloseReturns ==
  LET c == baseCrawler
      counted == [c EXCEPT !.page = "none",
                           !.pagesVisited = @ + 1,
                           !.crawlStats.totalPages = c.pagesVisited + 1]
  IN  /\ c.pc = "pageClose"
      /\ PageAlive(c)
      /\ IF counted.stopRequested
         THEN Leave([World EXCEPT !.c = [counted EXCEPT !.pc = "end"]])
         ELSE Loop([World EXCEPT !.c = counted])
      /\ UNCHANGED <<now, isGlobalStopRequested, cancelAt>>

\* crawlers[domain] of the catch block: the entry under the domain as it was
\* passed in; the keys of crawlers are normalized domains
EntryUnderArg(c) == c.arg.host = c.domain /\ crawlers[c.domain]

\* lines 555-601 and lines 78-92 of the service: page.close() returns, the
\* loop ends, and saveResults throws (the output directory cannot be written);
\* crawl() rejects and crawlDomain runs its catch block
SaveResultsThrows ==
  LET c == baseCrawler
      counted == [c EXCEPT !.page = "none",
                           !.pagesVisited = @ + 1,
                           !.crawlStats.totalPages = c.pagesVisited + 1]
      after == IF counted.stopRequested THEN [counted EXCEPT !.pc = "end"]
               ELSE crawlLoop(counted)
      ended == [after EXCEPT !.crawlStats.endTime = now,
                             !.crawlStats.wasCompleted = ~after.stopRequested]
      closing == closeBegin([World EXCEPT !.c = [ended EXCEPT !.pc = "catching"]])
  IN  /\ c.pc = "pageClose"
      /\ PageAlive(c)
      /\ after.pc = "end"
      /\ closeCalls["crawlDomain"] = "idle"
      /\ IF EntryUnderArg(c)
         THEN /\ Store(closing)
              /\ closeCalls' = [closeCalls EXCEPT !["crawlDomain"] = "pages"]
         ELSE /\ Store([World EXCEPT !.c = [ended EXCEPT !.pc = "rejected"]])
              /\ UNCHANGED closeCalls
      /\ UNCHANGED <<now, crawlers, crawlResults, isGlobalStopRequested, cancelAt>>

\* the awaited call rejects: the browser or the page is gone, or the
\* navigation timeout falls before the next step of the clock
CallRejects(c) ==
  \/ c.pc = "newPage" /\ c.browser # "open"
  \/ c.pc \in {"setupPage", "goto", "stopPageClose", "pageClose"} /\ ~PageAlive(c)
  \/ c.pc = "goto" /\ c.deadline < now + TickStep

\* lines 570-576: the catch of the loop body
CatchCrawlError ==
  LET c == baseCrawler
      failed == [c EXCEPT !.failedUrls = @ \cup {c.url}, !.deadline = NoTime]
  IN  /\ CallRejects(c)
      /\ IF failed.stopRequested
         THEN Leave([World EXCEPT !.c = [failed EXCEPT !.pc = "end"]])
         ELSE Loop([World EXCEPT !.c = failed])
      /\ UNCHANGED <<now, isGlobalStopRequested, cancelAt>>

\* the time stopRequested is first set on a crawler that was not stopping
CancelTime == IF baseCrawler.stopRequested \/ cancelAt # NoTime THEN cancelAt ELSE now

\* close() has no browser to close, or its calls are over: lines 442-450 and
\* what the caller does next (pc "catching": the caller is the catch block of
\* crawlDomain, lines 82-89 of the service, which then deletes its entry)
CloseFinished(k, c) ==
  /\ baseCrawler' = IF k # "crawlDomain" THEN closeEnd(c)
                    ELSE IF c.pc = "catching" THEN [closeEnd(c) EXCEPT !.pc = "rejected"]
                    ELSE [closeEnd(c) EXCEPT !.pc = "done"]
  /\ crawlers' = IF k = "crawlDomain" /\ c.pc # "catching" THEN crawlers
                 ELSE [crawlers EXCEPT ![c.domain] = FALSE]
  /\ closeCalls' = [closeCalls EXCEPT ![k] = "returned"]

\* saveResults() and close() as stopCrawler and stopAllCrawlers call them, up
\* to the await of browser.pages()
SaveAndClose(k) ==
  LET w == closeBegin(saveResults(World))
  IN  /\ outputFiles' = w.files
      /\ persisted' = [persisted EXCEPT ![1] = w.hist]
      /\ emitted' = [emitted EXCEPT ![1] = w.em]
      /\ IF w.c.browser = "open"
         THEN /\ baseCrawler' = w.c
              /\ closeCalls' = [closeCalls EXCEPT ![k] = "pages"]
              /\ UNCHANGED crawlers
         ELSE CloseFinished(k, w.c)

\* stop requests made so far
StopsSoFar ==
  Cardinality({k \in {"stopCrawler", "stopAllCrawlers"} : closeCalls[k] # "idle"})

\* stopCrawler, lines 221-233
ServiceStopCrawler(d) ==
  /\ StopsSoFar < MaxBaseStops
  /\ crawlers[getNormalizedDomain(d)]
  /\ baseCrawler.domain = getNormalizedDomain(d)
  /\ SaveAndClose("stopCrawler")
  /\ cancelAt' = CancelTime
  /\ UNCHANGED <<now, crawlResults, isGlobalStopRequested>>

\* stopAllCrawlers, lines 163-189: up to the 500 ms wait
ServiceStopAllCrawlers ==
  /\ StopsSoFar < MaxBaseStops
  /\ closeCalls["stopAllCrawlers"] = "idle"
  /\ isGlobalStopRequested' = TRUE
  /\ IF \E h \in NormalizedDomains : crawlers[h]
     THEN /\ baseCrawler' = [baseCrawler EXCEPT !.stopRequested = TRUE]
          /\ closeCalls' = [closeCalls EXCEPT !["stopAllCrawlers"] = "wait"]
          /\ cancelAt' = CancelTime
     ELSE /\ closeCalls' = [closeCalls EXCEPT !["stopAllCrawlers"] = "returned"]
          /\ UNCHANGED <<baseCrawler, cancelAt>>
  /\ UNCHANGED <<now, outputFiles, persisted, emitted, crawlers, crawlResults>>

\* stopAllCrawlers, lines 191-202
StopAllWaitReturns ==
  /\ closeCalls["stopAllCrawlers"] = "wait"
  /\ IF crawlers[baseCrawler.domain]
     THEN SaveAndClose("stopAllCrawlers")
     ELSE /\ closeCalls' = [closeCalls EXCEPT !["stopAllCrawlers"] = "returned"]
          /\ UNCHANGED <<baseCrawler, outputFiles, persisted, emitted, crawlers>>
  /\ UNCHANGED <<now, crawlResults, isGlobalStopRequested, cancelAt>>

\* close(), lines 424-434: browser.pages() settles
ClosePagesSettles(k) ==
  /\ closeCalls[k] = "pages"
  /\ IF baseCrawler.browser = "open"
     THEN /\ closeCalls' = [closeCalls EXCEPT ![k] = "pageClose"]
          /\ UNCHANGED <<baseCrawler, crawlers>>
     ELSE CloseFinished(k, baseCrawler)
  /\ UNCHANGED <<now, outputFiles, persisted, emitted, crawlResults,
                 isGlobalStopRequested, cancelAt>>

\* close(), lines 428-440: the pages are closed, browser.close() is called
ClosePageSettles(k) ==
  /\ closeCalls[k] = "pageClose"
  /\ baseCrawler' = [baseCrawler EXCEPT !.page = IF @ = "open" THEN "closed" ELSE @]
  /\ closeCalls' = [closeCalls EXCEPT ![k] = "browserClose"]
  /\ UNCHANGED <<now, outputFiles, persisted, emitted, crawlers, crawlResults,
                 isGlobalStopRequested, cancelAt>>

\* close(), lines 437-450: browser.close() settles
CloseBrowserSettles(k) ==
  /\ closeCalls[k] = "browserClose"
  /\ CloseFinished(k, baseCrawler)
  /\ UNCHANGED <<now, outputFiles, persisted, emitted, crawlResults,
                 isGlobalStopRequested, cancelAt>>

\* The clock.  A timer that is due before the next step of the clock fires
\* first: the navigation timeout of page.goto, the 500 ms wait of stopAllCrawlers;
\* and a call whose browser or page is gone rejects at once
TimersAllow ==
  /\ baseCrawler.pc = "goto" => now + TickStep <= baseCrawler.deadline
  /\ closeCalls["stopAllCrawlers"] # "wait"
  /\ ~CallRejects(baseCrawler)

Tick ==
  /\ now + TickStep <= MaxTime
  /\ TimersAllow
  /\ now' = now + TickStep
  /\ UNCHANGED <<activeCrawlers, crawlerHeartbeats, crawler, outputFiles, persisted,
                 emitted, stopCalls, stopCount, stopAll, productsAtCancel>>
  /\ UNCHANGED <<varsBase, varsSocket, varsUrl, varsMulti>>

EventsOptions == {TRUE}

\* the options crawlDomain is called with: one page is asked for
BaseOptions == {[maxPages |-> 1]}

NextBase ==
  \/ OnlyBase(\E d \in {Root(HostA)}, options \in BaseOptions, events \in EventsOptions :
                BaseCrawlDomain(d, options, events))
  \/ OnlyBase(InitReturns)
  \/ OnlyBase(InitFails)
  \/ OnlyBase(NewPageReturns)
  \/ OnlyBase(SetupPageReturns)
  \/ OnlyBase(GotoResolves)
  \/ OnlyBase(StopPageCloseReturns)
  \/ OnlyBase(WaitForTimeoutReturns)
  \/ OnlyBase(ScrollPageReturns)
  \/ OnlyBase(ClickLoadMoreButtonReturns)
  \/ OnlyBase(\E isProduct \in BOOLEAN : IsProductPageByDOMReturns(isProduct))
  \/ OnlyBase(\E links \in PageLinks(HostA) :
                ExtractLinksReturns(links, CategorySlot, MaxQueueLength))
  \/ OnlyBase(PageCloseReturns)
  \/ OnlyBase(CatchCrawlError)
  \/ OnlyBase(\E d \in {Root(HostA)} : ServiceStopCrawler(d))
  \/ OnlyBase(ServiceStopAllCrawlers)
  \/ OnlyBase(StopAllWaitReturns)
  \/ OnlyBase(\E k \in Callers : ClosePagesSettles(k))
  \/ OnlyBase(\E k \in Callers : ClosePageSettles(k))
  \/ OnlyBase(\E k \in Callers : CloseBrowserSettles(k))
  \/ Tick

TypeOKBase ==
  /\ baseCrawler.pc \in {"idle", "init", "rejected", "catching", "closing", "done"}
                          \cup LoopCalls
  /\ \A k \in Callers :
       closeCalls[k] \in {"idle", "wait", "pages", "pageClose", "browserClose", "returned"}
  /\ cancelAt \in {NoTime} \cup StartClock..MaxTime


(***************************************************************************)
(* The socket server (index.js) and crawler.js: every socket connection    *)
(* starts its crawl with startCrawling, which runs crawlSite for its       *)
(* domain; all of them share global.crawlCancelled.  Socket s asks for the *)
(* domain SocketDomain(s).                                                 *)
(***************************************************************************)
MAX_NO_PRODUCT_PAGES == 20
SiteMaxPages == 500

SocketDomain(s) == IF s = 1 THEN Root(HostA) ELSE Root(HostB)

OnlySocket(A) ==
  A /\ UNCHANGED <<now, activeCrawlers, crawlerHeartbeats, crawler, outputFiles,
                   persisted, emitted, stopCalls, stopCount, stopAll,
                   productsAtCancel, varsBase, varsUrl, varsMulti>>

\* queue.sort: higher priority first, then lower depth
Precedes(a, b) ==
  IF a.priority # b.priority THEN a.priority > b.priority ELSE a.depth < b.depth

RECURSIVE InsertSorted(_, _)
InsertSorted(item, sorted) ==
  IF sorted = << >> THEN << item >>
  ELSE IF Precedes(item, Head(sorted)) THEN << item >> \o sorted
  ELSE << Head(sorted) >> \o InsertSorted(item, Tail(sorted))

\* Array.prototype.sort is stable
RECURSIVE SortQueue(_)
SortQueue(q) ==
  IF q = << >> THEN << >>
  ELSE InsertSorted(q[Len(q)], SortQueue(SubSeq(q, 1, Len(q) - 1)))

\* crawlSite, lines 634-665: the while loop from its condition to the await of
\* page.goto or to the end of the loop; cancelled is global.crawlCancelled
RECURSIVE siteLoop(_, _)
siteLoop(c, cancelled) ==
  IF ~(Len(c.queue) > 0 /\ c.pagesVisited < SiteMaxPages
       /\ c.noNewProductsCounter < MAX_NO_PRODUCT_PAGES)
  THEN [c EXCEPT !.pc = "end"]
  ELSE IF cancelled
  THEN [c EXCEPT !.pc = "end", !.cancelled = TRUE]
  ELSE LET sorted == SortQueue(c.queue)
           queueItem == Head(sorted)
           rest == [c EXCEPT !.queue = Tail(sorted)]
           normalizedUrl == normalizeUrl(queueItem.url)
       IN  IF normalizedUrl \in c.visited
           THEN siteLoop(rest, cancelled)
           ELSE [rest EXCEPT !.visited = @ \cup {normalizedUrl},
                             !.url = normalizedUrl,
                             !.depth = queueItem.depth,
                             !.pc = "goto"]

\* lines 909-928: the loop is over; the interval is cleared and the finally
\* block awaits browser.close()
siteLeave(c) ==
  IF c.pc = "end" THEN [c EXCEPT !.checkCancellation = FALSE, !.pc = "closing"] ELSE c

\* link.match(/\/[^\/]+\/[^\/]+\/?$/): the link ends with two non-empty parts
EndsWithTwoParts(link) == Len(link.path) >= 1 \/ link.query # << >> \/ link.hash # ""

\* lines 790-862, one link
processLink(c, link) ==
  LET normalizedLink == normalizeUrl(link)
      priority == IF isCategoryUrl(normalizedLink) THEN 3
                  ELSE IF EndsWithTwoParts(link) THEN 2
                  ELSE IF c.depth < 2 THEN 1
                  ELSE 0
  IN  IF \/ normalizedLink \in c.visited
         \/ \E i \in 1..Len(c.queue) : c.queue[i].url = normalizedLink
         \/ ~isSameDomain(link, c.domainName)
         \/ (shouldExcludeUrl(link) /\ ~isProductUrl(link))
      THEN c
      ELSE IF isProductUrl(normalizedLink)
      THEN IF normalizedLink \in c.productUrls THEN c
           ELSE [c EXCEPT !.productUrls = @ \cup {normalizedLink},
                          !.noNewProductsCounter = 0]
      ELSE [c EXCEPT !.queue = Append(@, [url |-> normalizedLink,
                                          priority |-> priority,
                                          depth |-> c.depth + 1])]

RECURSIVE processSiteLinks(_, _)
processSiteLinks(c, links) ==
  IF links = << >> THEN c
  ELSE processSiteLinks(processLink(c, Head(links)), Tail(links))

\* index.js startCrawl, lines 117-135, and startCrawling up to the await of
\* puppeteer.launch in crawlSite
startCrawl(s) ==
  /\ ~activeCrawling[s]
  /\ site[s].pc = "idle"
  /\ activeCrawling' = [activeCrawling EXCEPT ![s] = TRUE]
  /\ crawlCancelled' = FALSE
  /\ site' = [site EXCEPT ![s] = [@ EXCEPT !.pc = "launch",
                                           !.domainName = SocketDomain(s)]]
  /\ UNCHANGED stopAsked

\* crawlSite, lines 582-597: global.crawlProcess is never assigned, so the
\* browser is added to no set
SiteLaunchReturns(s) ==
  /\ site[s].pc = "launch"
  /\ site' = [site EXCEPT ![s] = [@ EXCEPT !.browser = "open", !.pc = "newPage"]]
  /\ UNCHANGED <<crawlCancelled, activeCrawling, stopAsked>>

\* crawlSite, lines 929-933, and onError of index.js
SiteLaunchFails(s) ==
  /\ site[s].pc \in {"launch", "newPage"}
  /\ site' = [site EXCEPT ![s] = [@ EXCEPT !.pc = "done"]]
  /\ activeCrawling' = [activeCrawling EXCEPT ![s] = FALSE]
  /\ UNCHANGED <<crawlCancelled, stopAsked>>

\* crawlSite, lines 597-665
SiteNewPageReturns(s) ==
  LET c == site[s]
      startingUrls == getStartingPoints(c.domainName)
      ready == [c EXCEPT !.queue = [i \in 1..Len(startingUrls) |->
                                      [url |-> startingUrls[i], priority |-> 0,
                                       depth |-> 0]],
                         !.checkCancellation = TRUE]
  IN  /\ c.pc = "newPage"
      /\ site' = [site EXCEPT ![s] = siteLeave(siteLoop(ready, crawlCancelled))]
      /\ UNCHANGED <<crawlCancelled, activeCrawling, stopAsked>>

\* lines 626-631: the interval callback when the flag is set
checkCancellation(s) ==
  /\ site[s].checkCancellation
  /\ crawlCancelled
  /\ site' = [site EXCEPT ![s] = [@ EXCEPT !.checkCancellation = FALSE,
                                           !.queue = << >>,
                                           !.cancelled = TRUE]]
  /\ UNCHANGED <<crawlCancelled, activeCrawling, stopAsked>>

\* lines 667-760: page.goto returns, the page's own URL is checked, and the
\* links are extracted
SiteGotoReturns(s) ==
  LET c == site[s]
      current == normalizeUrl(c.url)
  IN  /\ c.pc = "goto"
      /\ c.browser = "open"
      /\ site' = [site EXCEPT ![s] =
           [c EXCEPT !.productCountBefore = Cardinality(c.productUrls),
                     !.productUrls = IF isProductUrl(c.url) THEN @ \cup {current} ELSE @,
                     !.pc = "extract"]]
      /\ UNCHANGED <<crawlCancelled, activeCrawling, stopAsked>>

\* lines 783-886
SiteExtractReturns(s, links) ==
  LET c == site[s]
      linked == processSiteLinks(c, links)
      counted == [linked EXCEPT
                    !.pagesVisited = @ + 1,
                    !.noNewProductsCounter =
                       IF Cardinality(linked.productUrls) > c.productCountBefore
                       THEN 0 ELSE @ + 1]
  IN  /\ c.pc = "extract"
      /\ c.browser = "open"
      /\ site' = [site EXCEPT ![s] = siteLeave(siteLoop(counted, crawlCancelled))]
      /\ UNCHANGED <<crawlCancelled, activeCrawling, stopAsked>>

\* lines 887-897: the catch of the loop body
SitePageFails(s) ==
  LET c == site[s]
      failed == [c EXCEPT !.failedUrls = @ \cup {c.url}]
  IN  /\ c.pc \in {"goto", "extract"}
      /\ site' = [site EXCEPT ![s] = siteLeave(siteLoop(failed, crawlCancelled))]
      /\ UNCHANGED <<crawlCancelled, activeCrawling, stopAsked>>

\* lines 901-928, startCrawling lines 517-551 and onComplete of index.js
SiteCloseReturns(s) ==
  /\ site[s].pc = "closing"
  /\ site' = [site EXCEPT ![s] = [@ EXCEPT !.browser = "closed", !.pc = "done"]]
  /\ activeCrawling' = [activeCrawling EXCEPT ![s] = FALSE]
  /\ UNCHANGED <<crawlCancelled, stopAsked>>

\* index.js stopCrawl, lines 193-234: crawlProcess holds the promise returned by
\* startCrawling, which has no stop function
stopCrawl(s) ==
  /\ activeCrawling[s]
  /\ activeCrawling' = [activeCrawling EXCEPT ![s] = FALSE]
  /\ crawlCancelled' = TRUE
  /\ stopAsked' = [stopAsked EXCEPT ![s] = TRUE]
  /\ UNCHANGED site

NextSocket ==
  \/ OnlySocket(\E s \in Sessions : startCrawl(s))
  \/ OnlySocket(\E s \in Sessions : SiteLaunchReturns(s))
  \/ OnlySocket(\E s \in Sessions : SiteLaunchFails(s))
  \/ OnlySocket(\E s \in Sessions : SiteNewPageReturns(s))
  \/ OnlySocket(\E s \in Sessions : checkCancellation(s))
  \/ OnlySocket(\E s \in Sessions : SiteGotoReturns(s))
  \/ OnlySocket(\E s \in Sessions : \E links \in PageLinks(site[s].domainName.host) :
                  SiteExtractReturns(s, links))
  \/ OnlySocket(\E s \in Sessions : SitePageFails(s))
  \/ OnlySocket(\E s \in Sessions : SiteCloseReturns(s))
  \/ OnlySocket(\E s \in Sessions : stopCrawl(s))

TypeOKSocket ==
  /\ crawlCancelled \in BOOLEAN
  /\ \A s \in Sessions :
       site[s].pc \in {"idle", "launch", "newPage", "goto", "extract", "closing", "done"}

(***************************************************************************)
(* Specifications.                                                         *)
(***************************************************************************)
\* the crawlMultipleDomains calls of SpecMulti
MultiCalls == {1, 2}

InitMulti ==
  multi = [m \in MultiCalls |->
             [pc |-> "idle", domains |-> << >>, options |-> [maxPages |-> DefaultMaxPages],
              events |-> FALSE, afterStop |-> FALSE, made |-> 0]]

Init == InitRegistry /\ InitBase /\ InitSocket /\ InitUrl /\ InitMulti

\* the crawlDomain calls of SpecRegistry
RegistrySessions == {1}

\* one crawlDomain call, with stop requests, the watchdog and the clock
NextRegistry ==
  \/ OnlyRegistry(CrawlSteps(RegistrySessions))
  \/ OnlyRegistry(StopSteps)
  \/ Tick

\* concurrent crawlDomain calls at one instant of the clock
NextConcurrent ==
  \/ OnlyRegistry(CrawlSteps(Sessions))
  \/ OnlyRegistry(StopSteps)

SpecRegistry == Init /\ [][NextRegistry]_vars

SpecRegistryLive == SpecRegistry /\ FairRegistry

SpecConcurrent == Init /\ [][NextConcurrent]_vars

SpecBase == Init /\ [][NextBase]_vars

SpecSocket == Init /\ [][NextSocket]_vars

\* one crawlDomain call on the BaseCrawler service with stopAllCrawlers as the
\* only stop request
NextStopAll ==
  \/ OnlyBase(\E d \in {Root(HostA)}, options \in BaseOptions, events \in EventsOptions :
                BaseCrawlDomain(d, options, events))
  \/ OnlyBase(InitReturns)
  \/ OnlyBase(InitFails)
  \/ OnlyBase(NewPageReturns)
  \/ OnlyBase(SetupPageReturns)
  \/ OnlyBase(GotoResolves)
  \/ OnlyBase(StopPageCloseReturns)
  \/ OnlyBase(WaitForTimeoutReturns)
  \/ OnlyBase(ScrollPageReturns)
  \/ OnlyBase(ClickLoadMoreButtonReturns)
  \/ OnlyBase(\E isProduct \in BOOLEAN : IsProductPageByDOMReturns(isProduct))
  \/ OnlyBase(\E links \in PageLinks(HostA) :
                ExtractLinksReturns(links, CategorySlot, MaxQueueLength))
  \/ OnlyBase(PageCloseReturns)
  \/ OnlyBase(CatchCrawlError)
  \/ OnlyBase(ServiceStopAllCrawlers)
  \/ OnlyBase(StopAllWaitReturns)
  \/ OnlyBase(\E k \in Callers : ClosePagesSettles(k))
  \/ OnlyBase(\E k \in Callers : ClosePageSettles(k))
  \/ OnlyBase(\E k \in Callers : CloseBrowserSettles(k))
  \/ Tick

SpecStopAll == Init /\ [][NextStopAll]_vars

(***************************************************************************)
(* The frontier of BaseCrawler: a crawl that nobody stops and whose calls  *)
(* all succeed, on a site with product, category and other pages.  The     *)
(* two numbers of queueLinks are scaled down so that a site of this size  *)
(* fills the queue.                                                        *)
(***************************************************************************)
SmallSlot == 1          \* stands for the 10 of the category splice
SmallLimit == 3         \* stands for the 1000 of the slice

\* two product pages, two category pages, and /about with and without its
\* trailing slash
SiteLinks ==
  { Url(HostA, <<"p", "123456">>, FALSE, << >>, ""),
    Url(HostA, <<"p", "700384">>, FALSE, << >>, ""),
    Url(HostA, <<"c", "shoes">>, FALSE, << >>, ""),
    Url(HostA, <<"collections", "new">>, FALSE, << >>, ""),
    Url(HostA, <<"about">>, FALSE, << >>, ""),
    Url(HostA, <<"about">>, TRUE, << >>, "") }

\* what extractLinks can return: up to two different links
FrontierLinks ==
  { << >> } \cup { <<a>> : a \in SiteLinks }
            \cup { l \in SiteLinks \X SiteLinks : l[1] # l[2] }

NextQueue ==
  \/ OnlyBase(\E d \in {Root(HostA)}, options \in BaseOptions, events \in EventsOptions :
                BaseCrawlDomain(d, options, events))
  \/ OnlyBase(InitReturns)
  \/ OnlyBase(NewPageReturns)
  \/ OnlyBase(SetupPageReturns)
  \/ OnlyBase(GotoResolves)
  \/ OnlyBase(WaitForTimeoutReturns)
  \/ OnlyBase(ScrollPageReturns)
  \/ OnlyBase(ClickLoadMoreButtonReturns)
  \/ OnlyBase(\E isProduct \in BOOLEAN : IsProductPageByDOMReturns(isProduct))
  \/ OnlyBase(\E links \in FrontierLinks : ExtractLinksReturns(links, SmallSlot, SmallLimit))
  \/ OnlyBase(PageCloseReturns)
  \/ OnlyBase(\E k \in Callers : ClosePagesSettles(k))
  \/ OnlyBase(\E k \in Callers : ClosePageSettles(k))
  \/ OnlyBase(\E k \in Callers : CloseBrowserSettles(k))

SpecQueue == Init /\ [][NextQueue]_vars

(***************************************************************************)
(* The URL utilities called on their own.                                  *)
(***************************************************************************)
OnlyUrl(A) == A /\ UNCHANGED <<varsRegistry, varsBase, varsSocket, varsMulti>>

UrlPaths == { << >>, <<"c", "shoes">>, <<"c", "", "shoes">>, <<"c", "">> }

UrlQueries ==
  { << >>,
    << <<"ref", "1">> >>,
    << <<"page", "1">> >>,
    << <<"page", "2">> >>,
    << <<"utm_source", "x">>, <<"page", "2">> >>,
    << <<"page", "1">>, <<"page", "2">> >>,
    << <<"preference", "1">> >> }

\* strings new URL() rejects: a relative link, an empty href
Unparseable == { [raw |-> "/c//shoes/?page=2#frag"], [raw |-> ""] }

UrlInputs ==
  { Url(HostA, p, s, q, f) :
      p \in UrlPaths, s \in BOOLEAN, q \in UrlQueries, f \in {"", "frag"} }
    \cup Unparseable

\* normalizeUrl of utils/url.utils is called on a link
CallNormalizeUrl(u) ==
  normalizeCall' = [fn |-> "clearing", url |-> u, result |-> normalizeUrl(u), again |-> FALSE]

\* the filtering normalizeUrl is called on a link
CallNormalizeUrlFiltering(u) ==
  normalizeCall' = [fn |-> "filtering", url |-> u, result |-> normalizeUrlFiltering(u),
                    again |-> FALSE]

\* a normalized link comes back from the queue and is normalized again
NormalizeAgain ==
  /\ normalizeCall.fn # "none"
  /\ normalizeCall' =
       [normalizeCall EXCEPT
          !.again = TRUE,
          !.url = normalizeCall.result,
          !.result = IF normalizeCall.fn = "clearing"
                     THEN normalizeUrl(normalizeCall.result)
                     ELSE normalizeUrlFiltering(normalizeCall.result)]

NextUrl ==
  \/ OnlyUrl(\E u \in UrlInputs : CallNormalizeUrl(u))
  \/ OnlyUrl(\E u \in UrlInputs : CallNormalizeUrlFiltering(u))
  \/ OnlyUrl(NormalizeAgain)

SpecUrl == Init /\ [][NextUrl]_vars

InLoopPc(c) == c.pc \in {"goto", "extract"}

\* a page with two links into its own site
MorePageLinks(h) ==
  { << Url(h, <<"c", "shoes">>, FALSE, << >>, ""), Url(h, <<"about">>, FALSE, << >>, "") >> }

\* the browser process of a running session goes away on its own; every later
\* call on its page rejects
BrowserDisconnects(s) ==
  /\ InLoopPc(crawler[s])
  /\ crawler[s].browser = "open"
  /\ crawler' = [crawler EXCEPT ![s].browser = "dead"]
  /\ UNCHANGED <<now, activeCrawlers, crawlerHeartbeats, outputFiles, persisted,
                 emitted, stopCalls, stopCount, stopAll, productsAtCancel>>

\* SpecRegistry on a site that also has such pages, with a browser that can die
NextErrors ==
  \/ NextRegistry
  \/ OnlyRegistry(\E s \in RegistrySessions : BrowserDisconnects(s))
  \/ OnlyRegistry(\E s \in RegistrySessions :
                    \E links \in MorePageLinks(crawler[s].domain.host) :
                      ExtractReturns(s, links))

SpecErrors == Init /\ [][NextErrors]_vars

\* a page with more links into its own site than the scaled queue limit
WidePageLinks(h) ==
  { << Url(h, <<"c", "shoes">>, FALSE, << >>, ""), Url(h, <<"about">>, FALSE, << >>, ""),
       Url(h, <<"collections", "new">>, FALSE, << >>, ""),
       Url(h, <<"about">>, TRUE, << >>, "") >> }

\* SpecRegistry on a site that also has such pages
NextWide ==
  \/ NextRegistry
  \/ OnlyRegistry(\E s \in RegistrySessions :
                    \E links \in WidePageLinks(crawler[s].domain.host) :
                      ExtractReturns(s, links))

SpecWide == Init /\ [][NextWide]_vars

\* SpecBase with both spellings of the domain (with and without its www.
\* prefix) and an output directory that can fail
NextThrow ==
  \/ NextBase
  \/ OnlyBase(\E options \in BaseOptions, events \in EventsOptions :
                BaseCrawlDomain(Root(getNormalizedDomain(Root(HostA))), options, events))
  \/ OnlyBase(SaveResultsThrows)

SpecThrow == Init /\ [][NextThrow]_vars

\* SpecBase with navigations that a site redirects to a product page of
\* another site
NextRedirect ==
  \/ NextBase
  \/ OnlyBase(\E target \in {Url(HostOther, <<"p", "123456">>, FALSE, << >>, "")} :
                GotoRedirects(target))

SpecRedirect == Init /\ [][NextRedirect]_vars

\* the lists of domains the calls are made with: the first call crawls two
\* domains one after the other, the second is for one of them
MultiLists(m) ==
  IF m = 1 THEN { << Root(HostA), Root(HostB) >> } ELSE { << Root(HostA) >> }

\* crawlers made by the calls so far
CrawlersMade == multi[1].made + multi[2].made

\* crawlMultipleDomains, lines 111-120, with crawlDomain lines 24-33: the
\* domains left once the calls that return 'already_running' are over
RECURSIVE RemainingDomains(_)
RemainingDomains(domains) ==
  IF domains = << >> THEN << >>
  ELSE IF crawlers[getNormalizedDomain(Head(domains))]
       THEN RemainingDomains(Tail(domains))
       ELSE domains

\* stopAllCrawlers has not returned: it waits for its timer or for close()
StopInFlight == closeCalls["stopAllCrawlers"] \notin {"idle", "returned"}

\* the crawlDomain call a crawlMultipleDomains call awaits has settled, and
\* the loop goes on before any other callback runs
ResumePending ==
  \E m \in MultiCalls :
    multi[m].pc = "crawlDomain" /\ baseCrawler.pc \in {"done", "rejected"}

\* crawlMultipleDomains, lines 111-123, from the test of the for loop: the loop
\* ends, or crawlDomain (lines 22-47) makes a crawler for the next domain and
\* awaits its init().  The model holds one BaseCrawler object, so a crawler is
\* made when the calls on the earlier one are over.
MultiLoop(m, call, flag) ==
  LET rest == RemainingDomains(call.domains)
  IN  IF flag \/ rest = << >>
      THEN /\ multi' = [multi EXCEPT ![m] = [call EXCEPT !.pc = "returned",
                                                          !.domains = << >>]]
           /\ UNCHANGED <<baseCrawler, closeCalls, cancelAt>>
      ELSE LET normalizedDomain == getNormalizedDomain(Head(rest))
           IN  /\ baseCrawler.pc \in {"idle", "done", "rejected"}
               /\ ~StopInFlight
               /\ CrawlersMade < MaxCrawlers
               /\ multi' = [multi EXCEPT ![m] = [call EXCEPT !.pc = "crawlDomain",
                                                              !.domains = Tail(rest),
                                                              !.made = @ + 1]]
               /\ baseCrawler' =
                    [NewBaseCrawler EXCEPT
                       !.pc = "init",
                       !.arg = Head(rest),
                       !.domain = normalizedDomain,
                       !.options = call.options,
                       !.startingPoints =
                          getStartingPoints(formattedDomain(normalizedDomain)),
                       !.events = call.events]
               /\ closeCalls' = [closeCalls EXCEPT !["crawlDomain"] = "idle"]
               /\ cancelAt' = NoTime

\* crawlMultipleDomains, lines 103-118: a call, up to its first await
CrawlMultipleDomains(m, domains, options, events) ==
  /\ multi[m].pc = "idle"
  /\ ~ResumePending
  /\ isGlobalStopRequested' = FALSE
  /\ MultiLoop(m, [multi[m] EXCEPT !.domains = domains, !.options = options,
                                    !.events = events,
                                    !.afterStop = closeCalls["stopAllCrawlers"] # "idle"],
               FALSE)
  /\ UNCHANGED <<now, outputFiles, persisted, emitted, crawlers, crawlResults>>

\* crawlMultipleDomains, lines 118-127: the awaited crawlDomain has returned
\* its result, or has thrown and the call rethrows
CrawlDomainSettles(m) ==
  /\ multi[m].pc = "crawlDomain"
  /\ baseCrawler.pc \in {"done", "rejected"}
  /\ MultiLoop(m, multi[m], isGlobalStopRequested \/ baseCrawler.pc = "rejected")
  /\ UNCHANGED <<now, outputFiles, persisted, emitted, crawlers, crawlResults,
                 isGlobalStopRequested>>

OnlyMulti(A) ==
  A /\ UNCHANGED <<activeCrawlers, crawlerHeartbeats, crawler, stopCalls, stopCount,
                   stopAll, productsAtCancel, varsSocket, varsUrl>>

\* the calls of the crawlers and of stopAllCrawlers settle
MultiSettles ==
  \/ OnlyBase(InitReturns)
  \/ OnlyBase(InitFails)
  \/ OnlyBase(NewPageReturns)
  \/ OnlyBase(SetupPageReturns)
  \/ OnlyBase(GotoResolves)
  \/ OnlyBase(StopPageCloseReturns)
  \/ OnlyBase(WaitForTimeoutReturns)
  \/ OnlyBase(ScrollPageReturns)
  \/ OnlyBase(ClickLoadMoreButtonReturns)
  \/ OnlyBase(\E isProduct \in BOOLEAN : IsProductPageByDOMReturns(isProduct))
  \/ OnlyBase(\E links \in PageLinks(HostA) :
                ExtractLinksReturns(links, CategorySlot, MaxQueueLength))
  \/ OnlyBase(PageCloseReturns)
  \/ OnlyBase(CatchCrawlError)
  \/ OnlyBase(StopAllWaitReturns)
  \/ OnlyBase(\E k \in Callers : ClosePagesSettles(k))
  \/ OnlyBase(\E k \in Callers : ClosePageSettles(k))
  \/ OnlyBase(\E k \in Callers : CloseBrowserSettles(k))

\* two crawlMultipleDomains calls without a socket, and stopAllCrawlers; a loop
\* that can go on does so before anything else happens
NextMulti ==
  \/ (~(ResumePending /\ ~StopInFlight) /\ MultiSettles)
  \/ (~ResumePending /\ OnlyBase(ServiceStopAllCrawlers))
  \/ OnlyMulti(\E m \in MultiCalls :
                 \E domains \in MultiLists(m), options \in BaseOptions, events \in {FALSE} :
                   CrawlMultipleDomains(m, domains, options, events))
  \/ OnlyMulti(\E m \in MultiCalls : CrawlDomainSettles(m))

SpecMulti == Init /\ [][NextMulti]_vars

(***************************************************************************)
(* Properties of services/crawler.service.                                 *)
(***************************************************************************)
InLoop(s) == crawler[s].pc \in {"goto", "extract"}
LoopEnded(s) == crawler[s].pc \in {"closing", "done"}
WasRegistered(s) == InLoop(s) \/ LoopEnded(s)
IsRegistered(s) == activeCrawlers[crawler[s].domain] = s
BeingStopped(s) == \E k \in stopCalls : k.crawler = s

\* the status of a session, read from the fields of its crawler object
Status(s) ==
  CASE crawler[s].pc = "idle" -> "None"
    [] crawler[s].pc = "launch" -> "Created"
    [] crawler[s].pc = "rejected" -> "Failed"
    [] InLoop(s) -> "Running"
    [] OTHER -> IF crawler[s].cancelRequested THEN "Stopped" ELSE "Completed"

TerminalStatus == {"Completed", "Stopped", "Failed"}

Count(seq, x) == Cardinality({i \in 1..Len(seq) : seq[i] = x})

\* C1: a session that has been registered and is no longer in activeCrawlers
\* has written its result: the registry entry goes only after the persist.
C1_DeregisteredOnlyAfterPersist ==
  \A s \in Sessions :
    (WasRegistered(s) /\ ~IsRegistered(s)) => Len(persisted[s]) > 0

\* C3: a session whose crawlDomain call has returned and whose stop calls are
\* over has emitted exactly one terminal event: crawl_complete and no stopped
\* event when it completed, one stopped event and no crawl_complete when it was
\* stopped.
C3_OneTerminalEvent ==
  \A s \in Sessions :
    (crawler[s].pc = "done" /\ ~BeingStopped(s)) =>
      LET completes == Count(emitted[s], "crawl_complete")
          stops == Count(emitted[s], "crawl_forcibly_stopped")
      IN  IF Status(s) = "Completed"
          THEN completes = 1 /\ stops = 0
          ELSE completes = 0 /\ stops = 1

\* C4: the status of a session moves forward only: a terminal status never
\* changes, a running session stays running or becomes terminal, a created
\* session never goes back to not existing.
C4_StatusMonotonic ==
  [][\A s \in Sessions :
       /\ Status(s) \in TerminalStatus => Status(s)' = Status(s)
       /\ Status(s) = "Running" => Status(s)' \in {"Running"} \cup TerminalStatus
       /\ Status(s) = "Created" => Status(s)' \in {"Created", "Running"} \cup TerminalStatus
    ]_vars

\* a stop request was accepted while the session ran and the session ended Stopped
C4_Witness ==
  \E s \in Sessions :
    /\ Status(s) = "Stopped"
    /\ crawler[s].pc = "done"
    /\ productsAtCancel[s].cancelled

\* C5: every result a cancelled session writes holds exactly the products it
\* had when cancellation was signalled, and has crawlCompleted = false.
C5_StoppedResultIsSnapshot ==
  \A s \in Sessions :
    productsAtCancel[s].cancelled =>
      \A i \in 1..Len(persisted[s]) :
        /\ persisted[s][i].products = productsAtCancel[s].products
        /\ ~persisted[s][i].stats.crawlCompleted

\* C10: a registered session whose heartbeat is older than three watchdog
\* intervals is terminated by the watchdog and its result is written, unless
\* the heartbeat is refreshed before the watchdog looks.
HeartbeatStale(d) ==
  now - (IF crawlerHeartbeats[d] = NoBeat THEN 0 ELSE crawlerHeartbeats[d])
    > 3 * HEARTBEAT_INTERVAL

C10_StalledIsTerminated ==
  \A s \in RegistrySessions :
    (IsRegistered(s) /\ HeartbeatStale(crawler[s].domain))
      ~> (Len(persisted[s]) > 0 \/ ~HeartbeatStale(crawler[s].domain))

\* only the watchdog has called stopCrawler, for a session whose heartbeat had
\* aged, and the session has written its result
C10_Witness ==
  \E k \in stopCalls :
    /\ k.origin = "watchdog"
    /\ stopCount = 1
    /\ now - crawler[k.crawler].timestamp > 3 * HEARTBEAT_INTERVAL
    /\ crawler[k.crawler].browser = "dead" \/ crawler[k.crawler].cancelRequested
    /\ Len(persisted[k.crawler]) > 0

\* C9: a crawlDomain call never takes over a domain that has a session: an
\* entry of activeCrawlers is removed or kept, never replaced by the crawler of
\* another call.
C9_StartLeavesRegistered ==
  [][\A d \in Domains :
       activeCrawlers[d] # NoCrawler =>
         activeCrawlers'[d] \in {activeCrawlers[d], NoCrawler}]_vars

(***************************************************************************)
(* Properties of the service built on BaseCrawler.                         *)
(***************************************************************************)
\* the status of the BaseCrawler session, read from the fields of the crawler
BaseStatus ==
  CASE baseCrawler.pc = "idle" -> "None"
    [] baseCrawler.pc = "init" -> "Created"
    [] baseCrawler.pc = "rejected" -> "Failed"
    [] baseCrawler.pc \in LoopCalls -> "Running"
    [] OTHER -> IF baseCrawler.crawlStats.wasCompleted THEN "Completed" ELSE "Stopped"

\* crawlDomain has returned and no stop call is under way
BaseQuiescent ==
  /\ baseCrawler.pc = "done"
  /\ \A k \in Callers : closeCalls[k] \in {"idle", "returned"}

\* the result files of the session in the output directory
BaseFiles == {n \in DOMAIN outputFiles : n[1] = baseCrawler.domain}

\* C2: once the crawl of a session is over (completed or stopped) and every
\* stop call has returned, the output directory holds exactly one result of
\* the session.
C2_OneResultPerSession ==
  BaseQuiescent => Cardinality(BaseFiles) = 1

\* C6: once the crawl of a session is over and every stop call has returned,
\* each result of the session in the output directory has crawlCompleted true
\* exactly when the session completed (false when it was stopped).
C6_CrawlCompletedIffCompleted ==
  BaseQuiescent =>
    \A n \in BaseFiles :
      outputFiles[n].stats.crawlCompleted = (BaseStatus = "Completed")

\* the 500 ms stopAllCrawlers waits before it closes the browsers, in steps of
\* the clock
StopGrace == TickStep

\* C7: a running session whose stopRequested flag is set while page.goto is in
\* flight is still running no longer than the shortened navigation timeout
\* plus the grace period after the flag was set.
C7_StopsWithinBound ==
  (baseCrawler.pc = "goto" /\ baseCrawler.stopRequested /\ cancelAt # NoTime)
    => now - cancelAt <= STOP_NAVIGATION_TIMEOUT + StopGrace

(***************************************************************************)
(* Properties of the socket server and crawler.js.                         *)
(***************************************************************************)
\* C8: the crawl of a socket is ended by cancellation (its loop breaks on the
\* flag, or its queue is emptied by the cancellation check) only if that
\* socket itself asked to stop.
C8_StopTouchesOnlyItsSession ==
  \A s \in Sessions : site[s].cancelled => stopAsked[s]

(***************************************************************************)
(* Further properties of services/crawler.service.                         *)
(***************************************************************************)
\* C11: once stopAllCrawlers has returned, every session it returned a result
\* for has left its loop, is no longer registered, and has written a result
\* with the products of the returned one.
C11_StopAllLeavesNoneRunning ==
  stopAll.pc = "done" =>
    \A r \in stopAll.savedResults : \A s \in RegistrySessions :
      crawler[s].domain = r.domain =>
        /\ ~InLoop(s)
        /\ ~IsRegistered(s)
        /\ \E i \in 1..Len(persisted[s]) : persisted[s][i].products = r.products

(***************************************************************************)
(* Further properties of the service built on BaseCrawler.                 *)
(***************************************************************************)
\* C12: once crawl() has returned, whether or not stopAllCrawlers or
\* stopCrawler ran beside it, the output directory holds a result of the
\* session with every product the session found.
C12_ProductsSurviveStopAll ==
  baseCrawler.pc \in {"closing", "done"} =>
    \E n \in BaseFiles : outputFiles[n].products = baseCrawler.productLinks

\* stopAllCrawlers set the flag while the session was in its last iterations,
\* saved and closed after its wait, and the session had found a product
C12_Witness ==
  /\ BaseQuiescent
  /\ closeCalls["stopAllCrawlers"] = "returned"
  /\ cancelAt # NoTime
  /\ baseCrawler.productLinks # {}

\* C13: every record saveResults has written is still in the output directory
\* with the content it was written with, one file for each save.
C13_PersistNeverOverwrites ==
  /\ \A i \in 1..Len(persisted[1]) :
        \E n \in BaseFiles : outputFiles[n] = persisted[1][i]
  /\ Cardinality(BaseFiles) = Len(persisted[1])

(***************************************************************************)
(* GET /api/crawler/results (plugins/crawler-routes.js) over the registry  *)
(* service.  A JavaScript value is a record [type, value].                 *)
(***************************************************************************)
\* getCrawlResults of the service: the live product links of the registered
\* crawler of the domain, or an empty array
getCrawlResults(d) ==
  IF activeCrawlers[d] # NoCrawler
  THEN [type |-> "array", value |-> crawler[activeCrawlers[d]].productLinks]
  ELSE [type |-> "array", value |-> {}]

\* JavaScript truthiness: every array and object is truthy, null is not
Truthy(v) == v.type # "null"

\* domain.replace(/\W+/g, '_'): the labels of the host joined by _
sanitizedDomain(d) == d.host

\* file.startsWith(sanitizedDomain)
StartsWith(name, prefix) ==
  /\ Len(prefix) <= Len(name)
  /\ SubSeq(name, 1, Len(prefix)) = prefix

\* the names of the output directory that the route's filter keeps
SavedFiles(d) ==
  {n \in DOMAIN outputFiles : StartsWith(sanitizedDomain(n[1]), sanitizedDomain(d))}

\* the order of files.sort(): names of one domain by timestamp; '_' sorts after
\* '-', so the name of a longer domain comes after
SortsAfter(n, m) ==
  IF n[1] = m[1] THEN n[2] >= m[2]
  ELSE Len(sanitizedDomain(n[1])) > Len(sanitizedDomain(m[1]))

\* the handler of GET /api/crawler/results
getResults(d) ==
  LET activeCrawlerResults == getCrawlResults(d)
      files == SavedFiles(d)
      latestFile == CHOOSE n \in files : \A m \in files : SortsAfter(n, m)
  IN  IF Truthy(activeCrawlerResults)
      THEN [success |-> TRUE, results |-> activeCrawlerResults]
      ELSE IF files # {}
      THEN [success |-> TRUE,
            results |-> [type |-> "object", value |-> outputFiles[latestFile]]]
      ELSE [success |-> TRUE, results |-> [type |-> "default", value |-> {}]]

\* C14: the results route returns, for every domain, the record written last
\* for that domain, and no record when none was written for it.
C14_ResultsIsLatestRecord ==
  \A d \in Domains :
    LET r == getResults(d).results
        own == {n \in DOMAIN outputFiles : n[1] = d}
        last == CHOOSE n \in own : \A m \in own : m[2] <= n[2]
    IN  IF own = {}
        THEN r.type # "object"
        ELSE r.type = "object" /\ r.value = outputFiles[last]

\* C15: a session started with maxPages marks at most maxPages pages visited
\* and counts at most maxPages pages; asked for one page, it visits one.
C15_MaxPagesBoundsVisits ==
  /\ baseCrawler.pagesVisited <= baseCrawler.options.maxPages
  /\ baseCrawler.pc \in LoopCalls =>
        Cardinality(baseCrawler.visited) <= baseCrawler.options.maxPages

(***************************************************************************)
(* Error handling of services/crawler.service.                             *)
(***************************************************************************)
\* the queue entries the loop will not skip
PendingTasks(c) ==
  LET NotVisited(u) == normalizeUrl(u) \notin c.visited
  IN  SelectSeq(c.queue, NotVisited)

HasBudget(c) ==
  c.settings.indefiniteCrawling \/ c.crawlStats.totalPages < c.settings.maxPages

C17_DeadDriverAbortsAsFailed ==
  [][\A s \in RegistrySessions :
       ( /\ GotoFails(s) \/ ExtractFails(s)
         /\ crawler[s].browser = "dead"
         /\ ~crawler[s].cancelRequested ) =>
         /\ crawler'[s].pc = "closing"
         /\ Len(persisted'[s]) = Len(persisted[s]) + 1
         /\ persisted'[s][Len(persisted'[s])].products = crawler[s].productLinks
         /\ ~persisted'[s][Len(persisted'[s])].stats.crawlCompleted
    ]_vars

(***************************************************************************)
(* Concurrency of sessions.                                                *)
(***************************************************************************)
\* values the deployment can give to concurrencyLimit, the argument of pLimit
\* in startCrawling; 2 is the default
ConcurrencyLimits == {1, 2}

\* the crawlDomain calls that are in their crawl loop
Fetching == {s \in Sessions : InLoop(s)}

\* C18: whatever the configured concurrency limit is, no more sessions than
\* that are fetching at the same time, also when the sessions are started
\* through crawlDomain, as POST /api/crawler/start does for each site.
C18_FetchingWithinLimit ==
  \A concurrencyLimit \in ConcurrencyLimits :
    Cardinality(Fetching) <= concurrencyLimit

(***************************************************************************)
(* Properties of normalizeUrl.                                             *)
(***************************************************************************)
\* C19: normalizing the result of a normalizeUrl call again returns it
\* unchanged, for links that parse and for strings that do not.
C19_NormalizeIdempotent ==
  [][NormalizeAgain => normalizeCall'.result = normalizeCall.result]_vars

\* the result of normalizing a link to /c/shoes has been normalized again
C19_Witness ==
  /\ normalizeCall.again
  /\ normalizeCall.url = normalizeCall.result
  /\ IsParsed(normalizeCall.url)
  /\ normalizeCall.url.path = <<"c", "shoes">>

\* the query parameters of a link that are not tracking parameters, each with
\* the value of its last occurrence
LastValue(query, key) ==
  LET last == CHOOSE i \in 1..Len(query) :
                /\ query[i][1] = key
                /\ \A j \in (i + 1)..Len(query) : query[j][1] # key
  IN  query[last][2]

KeptParams(query) ==
  { <<query[i][1], LastValue(query, query[i][1])>> :
      i \in {j \in 1..Len(query) : ~IsTrackingKey(query[j][1])} }

\* C20: the result of normalizeUrl on a link that parses has no fragment, and
\* its query parameters are those of the link that are not tracking
\* parameters, so that links differing in such a parameter stay different.
C20_KeepsOtherParams ==
  (normalizeCall.fn # "none" /\ IsParsed(normalizeCall.url)) =>
    /\ normalizeCall.result.hash = ""
    /\ {normalizeCall.result.query[i] : i \in 1..Len(normalizeCall.result.query)}
         = KeptParams(normalizeCall.url.query)

(***************************************************************************)
(* Properties of the frontier.                                             *)
(***************************************************************************)
\* the tier queueLinks puts a link in: product 3, category 2, other 1
Tier(link) == IF isProductUrl(link) THEN 3 ELSE IF isCategoryUrl(link) THEN 2 ELSE 1

\* C21: the task the loop has just taken from the queue is of the highest
\* tier that had a task queued: nothing left in the queue is of a higher tier
\* than the page being opened.
C21_PopsHighestTier ==
  baseCrawler.pc = "newPage" =>
    \A i \in 1..Len(baseCrawler.queue) :
      Tier(baseCrawler.queue[i].url) <= Tier(baseCrawler.url)

\* C22: no URL of a session's queue is, once normalized, in its visited set.
C22_VisitedAndQueueDisjoint ==
  \A s \in RegistrySessions :
    \A i \in 1..Len(crawler[s].queue) :
      normalizeUrl(crawler[s].queue[i]) \notin crawler[s].visited

\* C23: once stopRequested is set, the crawl takes no further task from its
\* queue and starts no call on the browser or the page other than closing
\* the page: the only call of the loop that may still be running is the one
\* that was in flight when the flag was set.
C23_NoCallAfterStop ==
  [][(baseCrawler.stopRequested /\ baseCrawler'.pc # baseCrawler.pc) =>
       baseCrawler'.pc \notin LoopCalls \ {"stopPageClose", "pageClose"}
    ]_vars

\* C24: a session that leaves its loop after cancellation was requested
\* writes a result that is marked as not completed, also when its queue is
\* empty or its page limit is reached at that moment: cancellation comes
\* first among the reasons to end.
C24_CancelledEndsStopped ==
  [][\A s \in RegistrySessions :
       (InLoop(s) /\ crawler[s].cancelRequested /\ crawler'[s].pc = "closing") =>
         /\ Len(persisted'[s]) = Len(persisted[s]) + 1
         /\ ~persisted'[s][Len(persisted'[s])].stats.crawlCompleted
    ]_vars

\* a session has ended with nothing left in its queue and has written a
\* result marked as not completed
C24_Witness ==
  \E s \in RegistrySessions :
    /\ LoopEnded(s)
    /\ crawler[s].cancelRequested
    /\ PendingTasks(crawler[s]) = << >>
    /\ Len(persisted[s]) > 0
    /\ ~persisted[s][1].stats.crawlCompleted

\* C25: the count of pages without a new product goes back to zero when the
\* page that has just been processed added a product, and goes up by one
\* with every other page, a page that failed included.
C25_CounterCountsEveryPage ==
  [][\A s \in Sessions :
       /\ (\E links \in PageLinks(site[s].domainName.host) : SiteExtractReturns(s, links)) =>
            site'[s].noNewProductsCounter =
              IF Cardinality(site'[s].productUrls) > site[s].productCountBefore
              THEN 0 ELSE site[s].noNewProductsCounter + 1
       /\ SitePageFails(s) =>
            site'[s].noNewProductsCounter = site[s].noNewProductsCounter + 1
    ]_vars

\* C26: a session is taken out of the registry only after its terminal
\* steps: at the step that deregisters it the result has been persisted, the
\* terminal event has been emitted and the browser has been released.
C26_ReleasedBeforeDeregistered ==
  [][\A s \in RegistrySessions :
       (/\ activeCrawlers[crawler[s].domain] = s
        /\ activeCrawlers'[crawler[s].domain] = NoCrawler) =>
         /\ Len(persisted'[s]) > 0
         /\ crawler[s].io =>
              \E i \in 1..Len(emitted'[s]) :
                emitted'[s][i] \in {"crawl_complete", "crawl_stopped"}
         /\ crawler'[s].browser \notin {"open", "closing"}
    ]_vars

\* C27: a link whose normalized URL is already visited or already queued is
\* not queued again, so no two tasks of a queue have the same normalized URL.
C27_NoDuplicateTask ==
  \A i, j \in 1..Len(baseCrawler.queue) :
    i # j => normalizeUrl(baseCrawler.queue[i].url) # normalizeUrl(baseCrawler.queue[j].url)

\* C28: tasks of one tier leave the queue in the order in which they were
\* queued: a task queued by a page stands behind every task of its tier that
\* was queued before it, by an earlier page or earlier on the same page.
C28_FifoWithinTier ==
  [][\A links \in FrontierLinks :
       ExtractLinksReturns(links, SmallSlot, SmallLimit) =>
         LET old == baseCrawler.queue
             new == baseCrawler'.queue
             Queued(q, u) == \E i \in 1..Len(q) : q[i].url = u
             Pos(q, u) == CHOOSE i \in 1..Len(q) : q[i].url = u
         IN  \A n \in 1..Len(links) :
               (Queued(new, links[n]) /\ ~Queued(old, links[n])) =>
                 /\ \A i \in 1..Len(old) :
                      (Queued(new, old[i].url) /\ Tier(old[i].url) = Tier(links[n])) =>
                        Pos(new, old[i].url) < Pos(new, links[n])
                 /\ \A m \in 1..(n - 1) :
                      (Queued(new, links[m]) /\ ~Queued(old, links[m])
                         /\ Tier(links[m]) = Tier(links[n])) =>
                        Pos(new, links[m]) < Pos(new, links[n])
    ]_vars

\* C29: between two pages the queue of a session holds no more tasks than
\* the queue limit.
C29_QueueWithinLimit ==
  \A s \in RegistrySessions : Len(crawler[s].queue) <= SmallLimit

\* C30: when the links of a page make the queue longer than its limit, no
\* task that is cut off is a product, and no task that stays is of a lower
\* tier than a task that is cut off.
C30_TrimsLowestTierFirst ==
  [][\A links \in FrontierLinks :
       ExtractLinksReturns(links, SmallSlot, SmallLimit) =>
         LET full == queueLinksFrom(baseCrawler, links, baseCrawler.depth + 1, SmallSlot).queue
             kept == baseCrawler'.queue
         IN  \A i \in (Len(kept) + 1)..Len(full) :
               /\ ~isProductUrl(full[i].url)
               /\ \A j \in 1..Len(kept) : Tier(kept[j].url) >= Tier(full[i].url)
    ]_vars

(***************************************************************************)
(* Properties of the product set and the visited set.                      *)
(***************************************************************************)
\* C31: every URL of the product set of a session has been visited by that
\* session and is a product URL.
C31_ProductsWereVisited ==
  \A s \in RegistrySessions :
    crawler[s].productLinks \subseteq {u \in crawler[s].visited : isProductUrl(u)}

\* C32: a link that is a product URL is not queued; a task that the links of
\* a page add to the queue is a category or an other page, and its depth is
\* the depth of that page plus one.
C32_ProductLinksNotQueued ==
  [][\A links \in FrontierLinks :
       ExtractLinksReturns(links, SmallSlot, SmallLimit) =>
         \A i \in 1..Len(baseCrawler'.queue) :
           LET task == baseCrawler'.queue[i]
           IN  (\A j \in 1..Len(baseCrawler.queue) : baseCrawler.queue[j] # task) =>
                 /\ ~isProductUrl(task.url)
                 /\ task.depth = baseCrawler.depth + 1
    ]_vars

C34_CancelFlagStays ==
  [][\A s \in Sessions :
       (/\ stopAsked[s]
        /\ site[s].pc \in {"launch", "newPage", "goto", "extract"}
        /\ crawlCancelled) => crawlCancelled'
    ]_vars

\* C35: the step that ends one session leaves the registry entry and the
\* heartbeat entry of every other session that is registered and running.
C35_CleanupLeavesOthers ==
  [][\A s, t \in Sessions :
       (/\ s # t
        /\ InLoop(s) /\ crawler'[s].pc = "closing"
        /\ InLoop(t) /\ activeCrawlers[crawler[t].domain] = t) =>
         /\ activeCrawlers'[crawler[t].domain] = t
         /\ crawlerHeartbeats'[crawler[t].domain] # NoBeat
    ]_vars

\* C36: when crawlDomain has rejected after its crawler was registered and no
\* close() is under way any more, the crawler is out of the registry and its
\* browser is closed, however the domain was spelled in the call.
C36_FailedCallCleansUp ==
  (/\ baseCrawler.pc = "rejected"
   /\ baseCrawler.crawlStats.startTime # NoTime
   /\ \A k \in Callers : closeCalls[k] \in {"idle", "returned"}) =>
    /\ ~crawlers[baseCrawler.domain]
    /\ baseCrawler.browser # "open"

\* C37: at no time are two stopCrawler calls under way for the same session.
C37_OneTerminationAtATime ==
  \A k1, k2 \in stopCalls : k1.crawler = k2.crawler => k1 = k2

\* C38: the heartbeat of a registered session is only renewed by a step of
\* its crawl, so that a session whose crawl takes no step gets a stale
\* heartbeat: no step renews the heartbeat of a session and leaves the
\* session as it was.
C38_HeartbeatNeedsProgress ==
  [][\A s \in RegistrySessions :
       LET d == crawler[s].domain
       IN  (/\ activeCrawlers[d] = s
            /\ crawlerHeartbeats'[d] # NoBeat
            /\ crawlerHeartbeats'[d] # crawlerHeartbeats[d]) =>
             crawler'[s] # crawler[s]
    ]_vars


\* C39: every URL of a session's product set belongs to the session's domain
\* (the same host, or a subdomain of it), whether it was found as a link on a
\* page or is the address a navigation was redirected to.
C39_ProductsOfOwnDomain ==
  \A u \in baseCrawler.productLinks : isSameDomain(u, Root(baseCrawler.domain))


(***************************************************************************)
(* Properties of crawlMultipleDomains.                                     *)
(***************************************************************************)
\* C40: once stopAllCrawlers has been called while a crawlMultipleDomains call
\* is crawling, that call starts no session for any of its remaining domains,
\* also when another crawlMultipleDomains call is made in the meantime.
C40_NoSessionAfterStopAll ==
  [][\A m \in MultiCalls :
       (/\ multi[m].pc = "crawlDomain"
        /\ ~multi[m].afterStop
        /\ closeCalls["stopAllCrawlers"] # "idle") =>
         ~(multi'[m].pc = "crawlDomain" /\ multi'[m].domains # multi[m].domains)]_vars

====
